---- MODULE Spec2Model ----
(***************************************************************************)
(* A model of the SHADOWGUARD analysis pipeline: the bytecode opcode       *)
(* scanner, the risk scoring engine, the policy engine, the content hash   *)
(* and replay, the parallel state snapshot, and the RPC retry / failover   *)
(* loop.  Each component has its own specification (SpecScan, SpecRisk,    *)
(* SpecReplay, SpecSnapshot, SpecRpc); the variables of the components a   *)
(* specification does not exercise stay at their idle values.              *)
(***************************************************************************)
EXTENDS Integers, Sequences, FiniteSets, TLC

VARIABLES
    \* OpcodeAnalyzer._scan_bytecode
    bytecode, i, counts, scan_pc,
    \* one pipeline run: RiskEngine.compute then PolicyEngine.apply
    request, state_diff, opcode_profile, behavior_report, policy,
    risk_report, final_report, run_pc,
    \* persistence and replay
    db, original_id, original_hash, chain, orig_chain, computations,
    replay_verdict,
    \* StateSnapshotEngine.capture
    reads, outcome, snapshot, cap_pc,
    \* RPCProvider._call_with_retry
    active, attempt, rpc_pc, rpc_trace,
    \* RPCProvider.__init__ and _connect_with_fallback
    rpc_url, answering, candidate, conn_pc, probed,
    \* the read operations of RPCProvider
    read_op, read_result,
    \* the snapshots StateDiffEngine.compute is given
    pre_snapshot, post_snapshot,
    \* PolicyEngine.set and save_policy
    policy_file, set_log,
    \* RPCProvider.debug_trace_call
    trace_support, queried, trace_result, trace_pc,
    \* one invocation of the simulate command: main and cmd_simulate
    cli, net, history, pipe_pc, sim_result, gas_price, gas_threshold,
    log_answer

scanVars == <<bytecode, i, counts, scan_pc>>
runVars  == <<request, state_diff, opcode_profile, behavior_report, policy,
              risk_report, final_report, run_pc>>
dbVars   == <<db, original_id, original_hash, chain, orig_chain, computations,
              replay_verdict>>
capVars  == <<reads, outcome, snapshot, cap_pc>>
rpcVars  == <<active, attempt, rpc_pc, rpc_trace>>
connVars == <<rpc_url, answering, candidate, conn_pc, probed>>

readVars == <<read_op, read_result>>

diffVars == <<pre_snapshot, post_snapshot>>

polVars == <<policy_file, set_log>>

traceVars == <<trace_support, queried, trace_result, trace_pc>>

pipeVars == <<cli, net, history, pipe_pc, sim_result, gas_price, gas_threshold,
              log_answer>>

\* The components around the analysis core: connection set-up, chain reads,
\* the state diff, the policy document, trace retrieval, the orchestration
\* of a run.
edgeVars == <<connVars, readVars, diffVars, polVars, traceVars, pipeVars>>
vars     == <<scanVars, runVars, dbVars, capVars, rpcVars, edgeVars>>

None == "none"

\* The value of a record-valued variable that holds no record yet.
NoRecord == [absent |-> TRUE]

Min(a, b) == IF a < b THEN a ELSE b
Max(a, b) == IF a > b THEN a ELSE b

RECURSIVE SumOver(_, _)
SumOver(S, f) ==
    IF S = {} THEN 0
    ELSE LET x == CHOOSE y \in S : TRUE IN f[x] + SumOver(S \ {x}, f)

(***************************************************************************)
(* Idle values of the components a specification does not exercise.        *)
(***************************************************************************)
IdleScan ==
    /\ bytecode = <<>> /\ i = 0 /\ counts = <<>> /\ scan_pc = "idle"
IdleRun ==
    /\ request = NoRecord /\ state_diff = NoRecord /\ opcode_profile = NoRecord
    /\ behavior_report = NoRecord /\ policy = NoRecord
    /\ risk_report = NoRecord /\ final_report = NoRecord /\ run_pc = "idle"
IdleDb ==
    /\ db = <<>> /\ original_id = 0 /\ original_hash = NoRecord
    /\ chain = 0 /\ orig_chain = 0 /\ computations = {}
    /\ replay_verdict = None
IdleCap ==
    /\ reads = <<>> /\ outcome = <<>> /\ snapshot = NoRecord /\ cap_pc = "idle"
IdleRpc ==
    /\ active = 0 /\ attempt = 0 /\ rpc_pc = "idle" /\ rpc_trace = <<>>
IdleConn ==
    /\ rpc_url = 0 /\ answering = {} /\ candidate = 0 /\ conn_pc = "idle"
    /\ probed = <<>>
IdleRead ==
    /\ read_op = None /\ read_result = <<>>
IdleDiff ==
    /\ pre_snapshot = NoRecord /\ post_snapshot = NoRecord
IdlePol ==
    /\ policy_file = NoRecord /\ set_log = <<>>
IdleTrace ==
    /\ trace_support = <<>> /\ queried = <<>> /\ trace_result = None
    /\ trace_pc = "idle"
IdlePipe ==
    /\ cli = NoRecord /\ net = "idle" /\ history = <<>> /\ pipe_pc = "idle"
    /\ sim_result = NoRecord /\ gas_price = 0
    /\ gas_threshold = 0 /\ log_answer = 0
IdleEdge ==
    /\ IdleConn /\ IdleRead /\ IdleDiff /\ IdlePol
    /\ IdleTrace /\ IdlePipe

(***************************************************************************)
(* Bytecode opcode scanner (core/opcode_analyzer.py).                      *)
(***************************************************************************)
OPCODE_SELFDESTRUCT == 255
OPCODE_DELEGATECALL == 244
OPCODE_CALLCODE     == 242
OPCODE_CREATE2      == 245
OPCODE_CREATE       == 240
OPCODE_SSTORE       == 85
OPCODE_CALL         == 241
OPCODE_STATICCALL   == 250
PUSH1  == 96
PUSH32 == 127

\* Longest bytecode scanned.
MaxLen == 3

\* The byte values scanned: every tracked opcode, STOP, and PUSH1, PUSH2 and
\* PUSH32 (whose operand runs past the end of every bytecode scanned).
ByteAlphabet == {0, 85, 96, 97, 127, 240, 241, 242, 244, 245, 250, 255}

Bytecodes == UNION {[1..n -> ByteAlphabet] : n \in 0..MaxLen}

\* The counter a byte increments, by the if/elif chain of the scan loop.
CounterOf(byte) ==
    IF byte = OPCODE_SELFDESTRUCT THEN "selfdestruct"
    ELSE IF byte = OPCODE_DELEGATECALL THEN "delegatecall"
    ELSE IF byte = OPCODE_CALLCODE THEN "callcode"
    ELSE IF byte = OPCODE_CREATE2 THEN "create2"
    ELSE IF byte = OPCODE_CREATE THEN "create"
    ELSE IF byte = OPCODE_SSTORE THEN "sstore"
    ELSE IF byte = OPCODE_CALL THEN "call"
    ELSE IF byte = OPCODE_STATICCALL THEN "staticcall"
    ELSE None

CounterNames == {"selfdestruct", "delegatecall", "callcode", "create2",
                 "create", "sstore", "call", "staticcall"}

ZeroCounts == [c \in CounterNames |-> 0]

\* A scan that treats operand bytes as instructions.
NextCursorNoSkip(byte, cur) == cur + 1

\* The cursor after the instruction at cur: a PUSHn skips its n operand bytes.
NextCursor(byte, cur) ==
    IF PUSH1 <= byte /\ byte <= PUSH32
    THEN cur + (byte - PUSH1 + 1) + 1
    ELSE cur + 1

InitScan ==
    /\ bytecode \in Bytecodes
    /\ i = 0
    /\ counts = ZeroCounts
    /\ scan_pc = "scan"
    /\ IdleRun /\ IdleDb /\ IdleCap /\ IdleRpc /\ IdleEdge

\* One iteration of the while loop of _scan_bytecode (the cursor i is 0-based).
ScanStep ==
    /\ scan_pc = "scan"
    /\ i < Len(bytecode)
    /\ LET byte == bytecode[i + 1]
           c    == CounterOf(byte)
       IN /\ counts' = IF c = None THEN counts
                       ELSE [counts EXCEPT ![c] = @ + 1]
          /\ i' = NextCursor(byte, i)
    /\ UNCHANGED <<bytecode, scan_pc>>
    /\ UNCHANGED <<runVars, dbVars, capVars, rpcVars, edgeVars>>

\* The loop condition fails: _scan_bytecode returns counts.
ScanReturn ==
    /\ scan_pc = "scan"
    /\ i >= Len(bytecode)
    /\ scan_pc' = "done"
    /\ UNCHANGED <<bytecode, i, counts>>
    /\ UNCHANGED <<runVars, dbVars, capVars, rpcVars, edgeVars>>

NextScan == ScanStep \/ ScanReturn

SpecScan == InitScan /\ [][NextScan]_vars

\* Position p (0-based) of code holds operand data: an earlier instruction
\* position q holds PUSHn and p is one of the n bytes after it.
IsOperand(code) ==
    LET f[p \in 0..(Len(code) - 1)] ==
            \E q \in 0..(p - 1) :
                /\ ~f[q]
                /\ PUSH1 <= code[q + 1] /\ code[q + 1] <= PUSH32
                /\ p - q <= code[q + 1] - PUSH1 + 1
    IN f

\* The number of instruction positions of code that hold the opcode of counter c.
InstructionCount(code, c) ==
    Cardinality({p \in 0..(Len(code) - 1) :
                    ~IsOperand(code)[p] /\ CounterOf(code[p + 1]) = c})

\* C1: a tracked opcode is counted only at instruction positions: when the scan
\* returns, every counter equals the number of instruction positions holding its
\* opcode (the operand bytes of PUSH1..PUSH32 are never counted); 60 FF 00 gives
\* selfdestruct 0 and the single byte FF gives selfdestruct 1.
C1_CountsOnlyInstructions ==
    scan_pc = "done" =>
        /\ \A c \in CounterNames : counts[c] = InstructionCount(bytecode, c)
        /\ bytecode = <<96, 255, 0>> => counts["selfdestruct"] = 0
        /\ bytecode = <<255>> => counts["selfdestruct"] = 1

\* The scan of PUSH1 0xFF; STOP has returned.
C1_Witness ==
    /\ scan_pc = "done"
    /\ bytecode = <<96, 255, 0>>
    /\ counts["selfdestruct"] = 0

(***************************************************************************)
(* Data model (models/simulation.py) and the inputs of the scoring stages. *)
(* Percentages are floats in the source; sender_drain_pct is held in       *)
(* tenths of a percent and gas_usage_pct in hundredths, so that the        *)
(* comparisons against whole-percent thresholds and the formatting to      *)
(* fewer digits keep their meaning.                                         *)
(***************************************************************************)
\* "{x:.0f}" of a value held in tenths: round to nearest, ties to even.
Fmt0(tenths) ==
    LET q == tenths \div 10
        r == tenths % 10
    IN IF r < 5 THEN q
       ELSE IF r > 5 THEN q + 1
       ELSE IF q % 2 = 0 THEN q ELSE q + 1

\* "{x:.1f}" of a value held in hundredths, in tenths.
Fmt1(hundredths) == Fmt0(hundredths)

GAS_ANOMALY_THRESHOLD == 80
MAX_NESTED_CALLS      == 5
MONITORED_STORAGE_SLOTS == {0, 1, 2, 3}

RISK_WEIGHTS ==
    [balance_drain_50pct     |-> 40,
     ownership_changed       |-> 50,
     selfdestruct_detected   |-> 30,
     delegatecall_detected   |-> 20,
     nested_calls_exceeded   |-> 20,
     gas_anomaly             |-> 15,
     create2_detected        |-> 10,
     multiple_storage_writes |-> 10,
     callcode_detected       |-> 15,
     contract_reverted       |-> 5]

DEFAULT_POLICY ==
    [max_drain             |-> 50,
     disallow_selfdestruct |-> FALSE,
     disallow_delegatecall |-> FALSE,
     max_nested_calls      |-> 5,
     min_block_score       |-> 0,
     policy_version        |-> 1]

\* OpcodeAnalyzer.analyze: the profile built from the scan's counters.
RiskOpcodes(c) ==
    (IF c["selfdestruct"] > 0 THEN <<<<"SELFDESTRUCT", c["selfdestruct"]>>>> ELSE <<>>)
    \o (IF c["delegatecall"] > 0 THEN <<<<"DELEGATECALL", c["delegatecall"]>>>> ELSE <<>>)
    \o (IF c["callcode"] > 0 THEN <<<<"CALLCODE", c["callcode"]>>>> ELSE <<>>)
    \o (IF c["create2"] > 0 THEN <<<<"CREATE2", c["create2"]>>>> ELSE <<>>)

OpcodeProfile(c, size) ==
    [selfdestruct_count    |-> c["selfdestruct"],
     delegatecall_count    |-> c["delegatecall"],
     callcode_count        |-> c["callcode"],
     create2_count         |-> c["create2"],
     create_count          |-> c["create"],
     sstore_count          |-> c["sstore"],
     call_count            |-> c["call"],
     has_dangerous_opcodes |-> Len(RiskOpcodes(c)) > 0,
     risk_opcodes          |-> RiskOpcodes(c),
     bytecode_size         |-> size]

\* risk_level_from_score with its bands shifted by one (< for <=).
risk_level_from_score_strict(score) ==
    IF score < 25 THEN "LOW"
    ELSE IF score < 50 THEN "MEDIUM"
    ELSE IF score < 75 THEN "HIGH"
    ELSE "CRITICAL"

risk_level_from_score(score) ==
    IF score <= 25 THEN "LOW"
    ELSE IF score <= 50 THEN "MEDIUM"
    ELSE IF score <= 75 THEN "HIGH"
    ELSE "CRITICAL"

recommendation_from_level(level) ==
    CASE level = "LOW" -> "Transaction appears safe. Proceed with standard caution."
      [] level = "MEDIUM" -> "Transaction has moderate risk. Review triggered rules before proceeding."
      [] level = "HIGH" -> "Transaction poses significant risk. Manual audit recommended before execution."
      [] level = "CRITICAL" -> "BLOCK TRANSACTION IMMEDIATELY. High probability of malicious activity detected."
      [] OTHER -> "Unknown risk level."

\* StateDiff.to_dict and OpcodeProfile.to_dict copy every field (the slot keys
\* become their decimal strings, one string per key).
StateDiffToDict(sd) == sd
OpcodeProfileToDict(op) == op

EmptyDict == <<>>

\* compute_deterministic_hash: the SHA-256 digest of the JSON serialisation, with
\* sorted keys, of the five stable fields.  The digest is taken to be collision
\* free, so the hash is represented by the object that is serialised.
compute_deterministic_hash(record) ==
    [simulation_id  |-> record.simulation_id,
     request        |-> record.request,
     state_diff     |-> record.state_diff,
     opcode_profile |-> record.opcode_profile,
     risk_report    |-> record.risk_report]

\* A clamp that lets the sum through.
ClampScoreNone(score) == score

\* score = max(0, min(100, score))
ClampScore(score) == Max(0, Min(100, score))

\* The eleven rule checks of RiskEngine.compute in source order: whether the rule
\* fires, its points, and the message appended to triggered_rules.
RiskRules(sd, op, bh) ==
    << [hit |-> sd.sender_drain_pct > 50 * 10,
        points |-> RISK_WEIGHTS.balance_drain_50pct,
        msg |-> <<"balance drain detected", Fmt0(sd.sender_drain_pct)>>],
       [hit |-> sd.ownership_changed,
        points |-> RISK_WEIGHTS.ownership_changed,
        msg |-> <<"Contract ownership transferred", 0>>],
       [hit |-> sd.code_changed,
        points |-> 20,
        msg |-> <<"Contract bytecode modified", 0>>],
       [hit |-> Cardinality(DOMAIN sd.storage_changes) > 3,
        points |-> RISK_WEIGHTS.multiple_storage_writes,
        msg |-> <<"Multiple critical storage slots modified",
                  Cardinality(DOMAIN sd.storage_changes)>>],
       [hit |-> op.selfdestruct_count > 0,
        points |-> RISK_WEIGHTS.selfdestruct_detected,
        msg |-> <<"SELFDESTRUCT opcode detected", op.selfdestruct_count>>],
       [hit |-> op.delegatecall_count > 0,
        points |-> RISK_WEIGHTS.delegatecall_detected,
        msg |-> <<"DELEGATECALL opcode detected", op.delegatecall_count>>],
       [hit |-> op.callcode_count > 0,
        points |-> RISK_WEIGHTS.callcode_detected,
        msg |-> <<"CALLCODE opcode detected", op.callcode_count>>],
       [hit |-> op.create2_count > 0,
        points |-> RISK_WEIGHTS.create2_detected,
        msg |-> <<"CREATE2 opcode detected", op.create2_count>>],
       [hit |-> bh.nested_call_depth > MAX_NESTED_CALLS,
        points |-> RISK_WEIGHTS.nested_calls_exceeded,
        msg |-> <<"Nested external calls", bh.nested_call_depth>>],
       [hit |-> bh.gas_anomaly,
        points |-> RISK_WEIGHTS.gas_anomaly,
        msg |-> <<"Gas anomaly", Fmt1(bh.gas_usage_pct)>>],
       [hit |-> bh.storage_write_count > 5,
        points |-> RISK_WEIGHTS.multiple_storage_writes,
        msg |-> <<"Excessive SSTORE operations", bh.storage_write_count>>] >>

\* The running score and rule list after the first n checks.
RECURSIVE RunRules(_, _)
RunRules(rules, n) ==
    IF n = 0 THEN [score |-> 0, triggered_rules |-> <<>>]
    ELSE LET prev == RunRules(rules, n - 1)
             r    == rules[n]
         IN IF r.hit
            THEN [score |-> prev.score + r.points,
                  triggered_rules |-> Append(prev.triggered_rules,
                                             <<r.msg[1], r.msg[2], r.points>>)]
            ELSE prev

\* RiskEngine.compute
RiskCompute(sd, op, bh, simulation_id) ==
    LET rules == RiskRules(sd, op, bh)
        acc   == RunRules(rules, Len(rules))
        score == ClampScore(acc.score)
        level == risk_level_from_score(score)
        det_hash == compute_deterministic_hash(
            [simulation_id  |-> simulation_id,
             request        |-> EmptyDict,
             state_diff     |-> StateDiffToDict(sd),
             opcode_profile |-> OpcodeProfileToDict(op),
             risk_report    |-> [score |-> score, level |-> level,
                                 triggered_rules |-> acc.triggered_rules]])
    IN [score              |-> score,
        level              |-> level,
        triggered_rules    |-> acc.triggered_rules,
        recommendation     |-> recommendation_from_level(level),
        policy_violations  |-> <<>>,
        deterministic_hash |-> det_hash]

\* The four escalation checks of PolicyEngine.apply in source order.
PolicyChecks(pol, drain_pct, opcode_selfdestruct, opcode_delegatecall, nested_calls) ==
    << [hit |-> drain_pct > pol.max_drain * 10,
        boost |-> 15,
        msg |-> <<"Balance drain exceeds policy limit", drain_pct, pol.max_drain>>],
       [hit |-> pol.disallow_selfdestruct /\ opcode_selfdestruct,
        boost |-> 20,
        msg |-> <<"SELFDESTRUCT is explicitly disallowed by policy", 0, 0>>],
       [hit |-> pol.disallow_delegatecall /\ opcode_delegatecall,
        boost |-> 15,
        msg |-> <<"DELEGATECALL is explicitly disallowed by policy", 0, 0>>],
       [hit |-> nested_calls > pol.max_nested_calls,
        boost |-> 10,
        msg |-> <<"Nested calls exceeds policy limit", nested_calls,
                  pol.max_nested_calls>>] >>

RECURSIVE RunChecks(_, _)
RunChecks(checks, n) ==
    IF n = 0 THEN [score_boost |-> 0, violations |-> <<>>]
    ELSE LET prev == RunChecks(checks, n - 1)
             c    == checks[n]
         IN IF c.hit
            THEN [score_boost |-> prev.score_boost + c.boost,
                  violations |-> Append(prev.violations, c.msg)]
            ELSE prev

\* An apply whose drain escalation adds 10.
PolicyApplyWeakDrain(pol, rr, drain_pct, opcode_selfdestruct, opcode_delegatecall, nested_calls) ==
    LET checks == PolicyChecks(pol, drain_pct, opcode_selfdestruct,
                               opcode_delegatecall, nested_calls)
        acc == RunChecks(checks, Len(checks))
        boost == IF checks[1].hit THEN acc.score_boost - 5 ELSE acc.score_boost
        new_score == Min(100, rr.score + boost)
        new_level == risk_level_from_score(new_score)
    IN [score              |-> new_score,
        level              |-> new_level,
        triggered_rules    |-> rr.triggered_rules,
        recommendation     |-> recommendation_from_level(new_level),
        policy_violations  |-> acc.violations,
        deterministic_hash |-> rr.deterministic_hash]

\* An apply that recomputes the hash over the escalated risk fields.
PolicyApplyRehash(pol, rr, drain_pct, opcode_selfdestruct, opcode_delegatecall, nested_calls) ==
    LET checks == PolicyChecks(pol, drain_pct, opcode_selfdestruct,
                               opcode_delegatecall, nested_calls)
        acc == RunChecks(checks, Len(checks))
        new_score == Min(100, rr.score + acc.score_boost)
        new_level == risk_level_from_score(new_score)
    IN [score              |-> new_score,
        level              |-> new_level,
        triggered_rules    |-> rr.triggered_rules,
        recommendation     |-> recommendation_from_level(new_level),
        policy_violations  |-> acc.violations,
        deterministic_hash |->
            [rr.deterministic_hash EXCEPT
                !.risk_report = [score |-> new_score, level |-> new_level,
                                 triggered_rules |-> rr.triggered_rules]]]

\* PolicyEngine.apply
PolicyApply(pol, rr, drain_pct, opcode_selfdestruct, opcode_delegatecall, nested_calls) ==
    LET checks == PolicyChecks(pol, drain_pct, opcode_selfdestruct,
                               opcode_delegatecall, nested_calls)
        acc == RunChecks(checks, Len(checks))
        new_score == Min(100, rr.score + acc.score_boost)
        new_level == risk_level_from_score(new_score)
    IN [score              |-> new_score,
        level              |-> new_level,
        triggered_rules    |-> rr.triggered_rules,
        recommendation     |-> recommendation_from_level(new_level),
        policy_violations  |-> acc.violations,
        deterministic_hash |-> rr.deterministic_hash]

(***************************************************************************)
(* The scoring stages of one run (stage 7, RiskEngine.compute, and stage   *)
(* 8, PolicyEngine.apply, of cmd_simulate) over the outputs of stages 1-6. *)
(***************************************************************************)
\* Largest SELFDESTRUCT and DELEGATECALL count of a profile.
MaxOpCount == 1

\* Drain percentages in tenths: none, exactly 50%, just over 50%, 60%.
DrainValues == {0, 500, 504, 600}

SlotChanges(S) == [s \in S |-> [before |-> 0, after |-> 1]]

\* A StateDiff of a sender that held 1000 wei: the drain fixes the sender delta;
\* the owner slot is slot 0, so an ownership change comes with a change of slot 0.
StateDiffs ==
    {sd \in
        {[sender_balance_delta_wei   |-> 0 - d,
          receiver_balance_delta_wei |-> 0,
          sender_drain_pct           |-> d,
          ownership_changed          |-> o,
          storage_changes            |-> SlotChanges(S),
          code_changed               |-> c,
          block_delta                |-> 0] :
            d \in DrainValues, o \in BOOLEAN, c \in BOOLEAN,
            S \in {{}, {0, 1, 2}, {0, 1, 2, 3}}} :
        sd.ownership_changed => 0 \in DOMAIN sd.storage_changes}

OpcodeProfiles ==
    {OpcodeProfile([ZeroCounts EXCEPT !["selfdestruct"] = a, !["delegatecall"] = b,
                                      !["callcode"] = c, !["create2"] = d], 64) :
        a \in 0..MaxOpCount, b \in 0..MaxOpCount, c \in 0..1, d \in 0..1}

\* The flags BehaviorAnalyzer.analyze appends for the three signals scored.
BehaviorFlags(depth, pct, writes) ==
    (IF pct >= GAS_ANOMALY_THRESHOLD * 100
        THEN <<<<"Gas usage anomaly", Fmt1(pct)>>>> ELSE <<>>)
    \o (IF depth > MAX_NESTED_CALLS
        THEN <<<<"Excessive nested calls", depth>>>> ELSE <<>>)
    \o (IF writes > 5
        THEN <<<<"Multiple storage writes detected", writes>>>> ELSE <<>>)

BehaviorReports ==
    {[nested_call_depth     |-> depth,
      gas_anomaly           |-> pct >= GAS_ANOMALY_THRESHOLD * 100,
      gas_usage_pct         |-> pct,
      external_interactions |-> 0,
      storage_write_count   |-> writes,
      static_call_count     |-> 0,
      behavior_flags        |-> BehaviorFlags(depth, pct, writes)] :
        depth \in {MAX_NESTED_CALLS, MAX_NESTED_CALLS + 1},
        pct \in {7999, 8000}, writes \in {5, 6}}

\* Policy documents PolicyEngine.set can produce from the defaults.
Policies ==
    {[DEFAULT_POLICY EXCEPT !.max_drain = m, !.disallow_selfdestruct = s,
                            !.disallow_delegatecall = d] :
        m \in {50, 60}, s \in BOOLEAN, d \in BOOLEAN}
    \cup {[DEFAULT_POLICY EXCEPT !.max_nested_calls = 6],
          [DEFAULT_POLICY EXCEPT !.max_nested_calls = 6,
                                 !.disallow_selfdestruct = TRUE]}

Request(sender, to, value_wei, data, gas_limit, simulation_id, timestamp) ==
    [sender |-> sender, to |-> to, value_wei |-> value_wei, data |-> data,
     gas_limit |-> gas_limit, simulation_id |-> simulation_id,
     timestamp |-> timestamp]

InitRisk ==
    /\ request = Request("0xA", "0xB", 0, "0x", 100000, 1, 1)
    /\ state_diff \in StateDiffs
    /\ opcode_profile \in OpcodeProfiles
    /\ behavior_report \in BehaviorReports
    /\ policy \in Policies
    /\ risk_report = NoRecord
    /\ final_report = NoRecord
    /\ run_pc = "behaved"
    /\ IdleScan /\ IdleDb /\ IdleCap /\ IdleRpc /\ IdleEdge

\* Stage 7 of cmd_simulate.
RiskStage ==
    /\ run_pc = "behaved"
    /\ risk_report' = RiskCompute(state_diff, opcode_profile, behavior_report,
                                  request.simulation_id)
    /\ run_pc' = "scored"
    /\ UNCHANGED <<request, state_diff, opcode_profile, behavior_report, policy,
                   final_report>>
    /\ UNCHANGED <<scanVars, dbVars, capVars, rpcVars, edgeVars>>

\* Stage 8 of cmd_simulate.
PolicyStage ==
    /\ run_pc = "scored"
    /\ final_report' = PolicyApply(policy, risk_report, state_diff.sender_drain_pct,
                                   opcode_profile.selfdestruct_count > 0,
                                   opcode_profile.delegatecall_count > 0,
                                   behavior_report.nested_call_depth)
    /\ run_pc' = "final"
    /\ UNCHANGED <<request, state_diff, opcode_profile, behavior_report, policy,
                   risk_report>>
    /\ UNCHANGED <<scanVars, dbVars, capVars, rpcVars, edgeVars>>

NextRisk == RiskStage \/ PolicyStage

SpecRisk == InitRisk /\ [][NextRisk]_vars

\* The rule table of the scoring engine as the specification states it.
C2_Rules == {"drain", "ownership", "code", "slots", "selfdestruct", "delegatecall",
             "callcode", "create2", "nested", "gas", "sstore"}

C2_Weight ==
    [r \in C2_Rules |->
        CASE r = "drain" -> 40 [] r = "ownership" -> 50 [] r = "code" -> 20
          [] r = "slots" -> 10 [] r = "selfdestruct" -> 30
          [] r = "delegatecall" -> 20 [] r = "callcode" -> 15
          [] r = "create2" -> 10 [] r = "nested" -> 20 [] r = "gas" -> 15
          [] r = "sstore" -> 10]

C2_Text ==
    [r \in C2_Rules |->
        CASE r = "drain" -> "balance drain detected"
          [] r = "ownership" -> "Contract ownership transferred"
          [] r = "code" -> "Contract bytecode modified"
          [] r = "slots" -> "Multiple critical storage slots modified"
          [] r = "selfdestruct" -> "SELFDESTRUCT opcode detected"
          [] r = "delegatecall" -> "DELEGATECALL opcode detected"
          [] r = "callcode" -> "CALLCODE opcode detected"
          [] r = "create2" -> "CREATE2 opcode detected"
          [] r = "nested" -> "Nested external calls"
          [] r = "gas" -> "Gas anomaly"
          [] r = "sstore" -> "Excessive SSTORE operations"]

C2_Fires(r, sd, op, bh) ==
    CASE r = "drain" -> sd.sender_drain_pct > 500
      [] r = "ownership" -> sd.ownership_changed
      [] r = "code" -> sd.code_changed
      [] r = "slots" -> Cardinality(DOMAIN sd.storage_changes) > 3
      [] r = "selfdestruct" -> op.selfdestruct_count > 0
      [] r = "delegatecall" -> op.delegatecall_count > 0
      [] r = "callcode" -> op.callcode_count > 0
      [] r = "create2" -> op.create2_count > 0
      [] r = "nested" -> bh.nested_call_depth > MAX_NESTED_CALLS
      [] r = "gas" -> bh.gas_anomaly
      [] r = "sstore" -> bh.storage_write_count > 5

C2_Triggered(sd, op, bh) == {r \in C2_Rules : C2_Fires(r, sd, op, bh)}

\* The inputs of the run changed so that rule r fires as well.
C2_With(r) ==
    [sd |-> CASE r = "drain" -> [state_diff EXCEPT !.sender_drain_pct = 600]
              [] r = "ownership" -> [state_diff EXCEPT !.ownership_changed = TRUE]
              [] r = "code" -> [state_diff EXCEPT !.code_changed = TRUE]
              [] r = "slots" ->
                    [state_diff EXCEPT !.storage_changes = SlotChanges({0, 1, 2, 3})]
              [] OTHER -> state_diff,
     op |-> CASE r = "selfdestruct" -> [opcode_profile EXCEPT !.selfdestruct_count = 1]
              [] r = "delegatecall" -> [opcode_profile EXCEPT !.delegatecall_count = 1]
              [] r = "callcode" -> [opcode_profile EXCEPT !.callcode_count = 1]
              [] r = "create2" -> [opcode_profile EXCEPT !.create2_count = 1]
              [] OTHER -> opcode_profile,
     bh |-> CASE r = "nested" ->
                    [behavior_report EXCEPT !.nested_call_depth = MAX_NESTED_CALLS + 1]
              [] r = "gas" -> [behavior_report EXCEPT !.gas_anomaly = TRUE]
              [] r = "sstore" -> [behavior_report EXCEPT !.storage_write_count = 6]
              [] OTHER -> behavior_report]

\* C2: the score is min(100, sum of the weights of the triggered rules), it lies
\* in 0..100, triggered_rules has exactly one entry per triggered rule and none
\* for the others, and making one more rule fire never lowers the score.
C2_ScoreIsClampedSum ==
    run_pc \in {"scored", "final"} =>
        LET T  == C2_Triggered(state_diff, opcode_profile, behavior_report)
            tr == risk_report.triggered_rules
        IN /\ risk_report.score = Min(100, SumOver(T, C2_Weight))
           /\ risk_report.score \in 0..100
           /\ Len(tr) = Cardinality(T)
           /\ \A r \in C2_Rules :
                Cardinality({k \in DOMAIN tr : tr[k][1] = C2_Text[r]})
                    = IF r \in T THEN 1 ELSE 0
           /\ \A k \in DOMAIN tr :
                \E r \in T : tr[k][1] = C2_Text[r] /\ tr[k][3] = C2_Weight[r]
           /\ \A r \in C2_Rules \ T :
                LET w == C2_With(r)
                IN /\ C2_Triggered(w.sd, w.op, w.bh) = T \cup {r}
                   /\ RiskCompute(w.sd, w.op, w.bh, request.simulation_id).score
                        >= risk_report.score

\* A report whose rule weights sum to more than 100 and whose score is 100.
C2_Witness ==
    /\ run_pc = "scored"
    /\ SumOver(C2_Triggered(state_diff, opcode_profile, behavior_report), C2_Weight) > 100
    /\ risk_report.score = 100

C3_Band(score) ==
    CASE score \in 0..25 -> "LOW"
      [] score \in 26..50 -> "MEDIUM"
      [] score \in 51..75 -> "HIGH"
      [] score \in 76..100 -> "CRITICAL"

C3_Text ==
    [l \in {"LOW", "MEDIUM", "HIGH", "CRITICAL"} |->
        CASE l = "LOW" -> "Transaction appears safe. Proceed with standard caution."
          [] l = "MEDIUM" -> "Transaction has moderate risk. Review triggered rules before proceeding."
          [] l = "HIGH" -> "Transaction poses significant risk. Manual audit recommended before execution."
          [] l = "CRITICAL" -> "BLOCK TRANSACTION IMMEDIATELY. High probability of malicious activity detected."]

C3_Banded(report) ==
    /\ report.score \in 0..100
    /\ report.level = C3_Band(report.score)
    /\ report.recommendation = C3_Text[report.level]

\* C3: in the report of RiskEngine.compute and in the report of PolicyEngine.apply
\* the level is the band of the score (0-25 LOW, 26-50 MEDIUM, 51-75 HIGH, 76-100
\* CRITICAL) and the recommendation is the fixed text of that level.
C3_LevelFollowsScore ==
    /\ run_pc \in {"scored", "final"} => C3_Banded(risk_report)
    /\ run_pc = "final" => C3_Banded(final_report)

\* A run scored at the top of a band (25 or 50) that the policy moved to the next band.
C3_Witness ==
    /\ run_pc = "final"
    /\ risk_report.score \in {25, 50, 75}
    /\ final_report.level # risk_report.level

\* The escalations of the policy as the specification states them.
C4_Escalations == {"drain", "selfdestruct", "delegatecall", "nested"}

C4_Points ==
    [e \in C4_Escalations |->
        CASE e = "drain" -> 15 [] e = "selfdestruct" -> 20
          [] e = "delegatecall" -> 15 [] e = "nested" -> 10]

C4_Fired ==
    {e \in C4_Escalations :
        CASE e = "drain" -> state_diff.sender_drain_pct > policy.max_drain * 10
          [] e = "selfdestruct" ->
                opcode_profile.selfdestruct_count > 0 /\ policy.disallow_selfdestruct
          [] e = "delegatecall" ->
                opcode_profile.delegatecall_count > 0 /\ policy.disallow_delegatecall
          [] e = "nested" ->
                behavior_report.nested_call_depth > policy.max_nested_calls}

C4_Boost == SumOver(C4_Fired, C4_Points)

C4_OnlySignal(r) ==
    C2_Triggered(state_diff, opcode_profile, behavior_report) = {r}

\* C4: the policy report's score is min(100, score + boost) with one violation
\* per escalation fired; 60% drain alone scores 40 MEDIUM and, under the default
\* policy, 55 HIGH with one violation; one selfdestruct alone with
\* disallow_selfdestruct scores 30 and then 50 MEDIUM.
C4_PolicyEscalation ==
    run_pc = "final" =>
        /\ final_report.score = Min(100, risk_report.score + C4_Boost)
        /\ Len(final_report.policy_violations) = Cardinality(C4_Fired)
        /\ (C4_OnlySignal("drain") /\ state_diff.sender_drain_pct = 600
                /\ policy = DEFAULT_POLICY) =>
              /\ risk_report.score = 40 /\ risk_report.level = "MEDIUM"
              /\ final_report.score = 55 /\ final_report.level = "HIGH"
              /\ Len(final_report.policy_violations) = 1
        /\ (C4_OnlySignal("selfdestruct") /\ opcode_profile.selfdestruct_count = 1
                /\ policy = [DEFAULT_POLICY EXCEPT !.disallow_selfdestruct = TRUE]) =>
              /\ risk_report.score = 30
              /\ final_report.score = 50 /\ final_report.level = "MEDIUM"

\* The 60% drain scenario after the default policy was applied.
C4_Witness ==
    /\ run_pc = "final"
    /\ C4_OnlySignal("drain") /\ state_diff.sender_drain_pct = 600
    /\ policy = DEFAULT_POLICY
    /\ final_report.score = 55

\* C5: PolicyEngine.apply returns a report with the deterministic_hash and the
\* triggered_rules of its input report, whatever escalations fire, and leaves the
\* policy document as it was.
C5_ApplyKeepsHashAndRules ==
    [][(run_pc = "scored" /\ run_pc' = "final") =>
            /\ final_report'.deterministic_hash = risk_report.deterministic_hash
            /\ final_report'.triggered_rules = risk_report.triggered_rules
            /\ policy' = policy]_vars

\* An apply that escalated the score.
C5_Witness ==
    /\ run_pc = "final"
    /\ Len(final_report.policy_violations) > 0
    /\ final_report.score > risk_report.score
    /\ Len(final_report.triggered_rules) > 0

(***************************************************************************)
(* Persistence and replay (main.py cmd_simulate, cmd_replay;               *)
(* storage/database.py): a simulate command, then a replay of its record.  *)
(***************************************************************************)
\* Number of distinct values generate_simulation_id can return.
MaxSimIds == 2

\* generate_simulation_id digests the transaction fields with a nanosecond
\* timestamp and four random bytes and keeps 12 hex digits: the value returned
\* for given transaction fields is any of the ids.
SimIds == 1..MaxSimIds

\* Values in wei the simulate command is given (447 wei is --value 4.470000000000001e-16).
ValuesWei == {0, 447, 448}

\* cmd_replay passes value_wei / 1e18 and intercept converts it back with
\* int(eth * 1e18): in double precision 447 wei comes back as 446.
ReplayValue(value_wei) == IF value_wei = 447 THEN 446 ELSE value_wei

\* What stages 2-6 of cmd_simulate derive from the chain, per state of the chain:
\* a quiet transfer, a 60% drain, a contract with SELFDESTRUCT and DELEGATECALL,
\* and a contract whose four monitored slots and owner changed.
QuietDiff ==
    [sender_balance_delta_wei |-> 0, receiver_balance_delta_wei |-> 0,
     sender_drain_pct |-> 0, ownership_changed |-> FALSE,
     storage_changes |-> SlotChanges({}), code_changed |-> FALSE, block_delta |-> 0]

QuietBehavior ==
    [nested_call_depth |-> 0, gas_anomaly |-> FALSE, gas_usage_pct |-> 2100,
     external_interactions |-> 0, storage_write_count |-> 0,
     static_call_count |-> 0, behavior_flags |-> <<>>]

ChainViews ==
    << [sd |-> QuietDiff,
        op |-> OpcodeProfile(ZeroCounts, 0),
        bh |-> QuietBehavior],
       [sd |-> [QuietDiff EXCEPT !.sender_balance_delta_wei = 0 - 600,
                                 !.sender_drain_pct = 600],
        op |-> OpcodeProfile(ZeroCounts, 0),
        bh |-> QuietBehavior],
       [sd |-> QuietDiff,
        op |-> OpcodeProfile([ZeroCounts EXCEPT !["selfdestruct"] = 1,
                                                !["delegatecall"] = 1], 64),
        bh |-> QuietBehavior],
       [sd |-> [QuietDiff EXCEPT !.ownership_changed = TRUE,
                                 !.storage_changes = SlotChanges({0, 1, 2, 3})],
        op |-> OpcodeProfile(ZeroCounts, 64),
        bh |-> QuietBehavior] >>

Chains == DOMAIN ChainViews

\* TransactionInterceptor.intercept on well-formed arguments with a gas limit.
Intercept(args, sim_id, timestamp) ==
    Request(args.sender, args.to, args.value, args.data, args.gas, sim_id, timestamp)

\* cmd_simulate: the request, the reports and the record it saves.
RunPipeline(args, sim_id, timestamp, view, pol) ==
    LET req == Intercept(args, sim_id, timestamp)
        rr  == RiskCompute(view.sd, view.op, view.bh, req.simulation_id)
        fr  == PolicyApply(pol, rr, view.sd.sender_drain_pct,
                           view.op.selfdestruct_count > 0,
                           view.op.delegatecall_count > 0,
                           view.bh.nested_call_depth)
    IN [request |-> req, risk_report |-> rr, final_report |-> fr,
        record |-> [simulation_id      |-> req.simulation_id,
                    timestamp          |-> req.timestamp,
                    request            |-> req,
                    state_diff         |-> StateDiffToDict(view.sd),
                    opcode_profile     |-> OpcodeProfileToDict(view.op),
                    behavior_report    |-> view.bh,
                    risk_report        |-> fr,
                    deterministic_hash |-> fr.deterministic_hash]]

\* SimulationDatabase.save_simulation: INSERT OR REPLACE keyed by simulation_id.
SaveSimulation(store, record) ==
    [k \in DOMAIN store \cup {record.simulation_id} |->
        IF k = record.simulation_id THEN record ELSE store[k]]

\* One call of RiskEngine.compute: the canonical fields of the run and the hash.
Computation(run, view) ==
    [simulation_id  |-> run.request.simulation_id,
     request        |-> run.request,
     state_diff     |-> view.sd,
     opcode_profile |-> view.op,
     risk_fields    |-> [score |-> run.risk_report.score,
                         level |-> run.risk_report.level,
                         triggered_rules |-> run.risk_report.triggered_rules],
     hash           |-> run.risk_report.deterministic_hash]

SimulateArgs ==
    [sender : {"0xA"}, to : {"0xB"}, value : ValuesWei, data : {"0x"},
     gas : {100000}]

InitReplay ==
    /\ db = <<>>
    /\ original_id = 0
    /\ original_hash = NoRecord
    /\ chain \in Chains
    /\ orig_chain = 0
    /\ computations = {}
    /\ replay_verdict = None
    /\ request = NoRecord /\ state_diff = NoRecord /\ opcode_profile = NoRecord
    /\ behavior_report = NoRecord /\ risk_report = NoRecord
    /\ final_report = NoRecord
    /\ policy = DEFAULT_POLICY
    /\ run_pc = "ready"
    /\ IdleScan /\ IdleCap /\ IdleRpc /\ IdleEdge

\* The simulate command: cmd_simulate end to end.
Simulate ==
    /\ run_pc = "ready"
    /\ \E args \in SimulateArgs, sim_id \in SimIds :
        LET view == ChainViews[chain]
            run  == RunPipeline(args, sim_id, 1, view, policy)
        IN /\ request' = run.request
           /\ state_diff' = view.sd
           /\ opcode_profile' = view.op
           /\ behavior_report' = view.bh
           /\ risk_report' = run.risk_report
           /\ final_report' = run.final_report
           /\ db' = SaveSimulation(db, run.record)
           /\ computations' = computations \cup {Computation(run, view)}
           /\ original_id' = sim_id
    /\ orig_chain' = chain
    /\ run_pc' = "saved"
    /\ UNCHANGED <<policy, original_hash, chain, replay_verdict>>
    /\ UNCHANGED <<scanVars, capVars, rpcVars, edgeVars>>

\* Transactions of others change the chain between the two commands.
ChainMoves ==
    /\ run_pc = "saved"
    /\ chain' \in Chains \ {chain}
    /\ UNCHANGED <<db, original_id, original_hash, orig_chain, computations,
                   replay_verdict>>
    /\ UNCHANGED <<runVars, scanVars, capVars, rpcVars, edgeVars>>

\* The replay command: cmd_replay loads the record, runs cmd_simulate on the
\* fields of its request and compares the hash stored under the original id.
Replay ==
    /\ run_pc = "saved"
    /\ original_id \in DOMAIN db
    /\ \E sim_id \in SimIds :
        LET record == db[original_id]
            req    == record.request
            args   == [sender |-> req.sender, to |-> req.to,
                       value |-> ReplayValue(req.value_wei),
                       data |-> req.data, gas |-> req.gas_limit]
            view   == ChainViews[chain]
            run    == RunPipeline(args, sim_id, 2, view, policy)
            store  == SaveSimulation(db, run.record)
            new_hash == store[original_id].deterministic_hash
        IN /\ original_hash' = record.deterministic_hash
           /\ request' = run.request
           /\ state_diff' = view.sd
           /\ opcode_profile' = view.op
           /\ behavior_report' = view.bh
           /\ risk_report' = run.risk_report
           /\ final_report' = run.final_report
           /\ db' = store
           /\ computations' = computations \cup {Computation(run, view)}
           /\ replay_verdict' = IF record.deterministic_hash = new_hash
                                THEN "PASSED" ELSE "differs"
    /\ run_pc' = "replayed"
    /\ UNCHANGED <<policy, original_id, chain, orig_chain>>
    /\ UNCHANGED <<scanVars, capVars, rpcVars, edgeVars>>

NextReplay == Simulate \/ ChainMoves \/ Replay

SpecReplay == InitReplay /\ [][NextReplay]_vars

\* The canonical fields of a computation.
C6_Canonical(c) ==
    <<c.simulation_id, c.request, c.state_diff, c.opcode_profile, c.risk_fields>>

\* C6: the hash is a deterministic function of the canonical fields (simulation
\* id, request, state diff, opcode profile, risk fields): two computations have
\* the same hash exactly when they have the same canonical fields.
C6_HashSeparatesCanonicalFields ==
    \A a, b \in computations :
        (a.hash = b.hash) <=> (C6_Canonical(a) = C6_Canonical(b))

\* C7: a replay with the same request against unchanged chain state produces a
\* record whose hash equals the hash of the original record.
C7_ReplayReproducesHash ==
    (/\ run_pc = "replayed"
     /\ chain = orig_chain
     /\ ReplayValue(request.value_wei) = request.value_wei) =>
        db[request.simulation_id].deterministic_hash = original_hash

\* C22: the replay command reports PASSED only when the hash of the re-run
\* equals the hash of the original record, and reports a differing hash
\* whenever the hash of the re-run is another one.
C22_VerdictFollowsRerunHash ==
    run_pc = "replayed" =>
        /\ replay_verdict = "PASSED" =>
              final_report.deterministic_hash = original_hash
        /\ final_report.deterministic_hash # original_hash =>
              replay_verdict = "differs"

(***************************************************************************)
(* StateSnapshotEngine.capture (core/state_snapshot.py): eight reads are   *)
(* submitted to a thread pool and collected with as_completed under a 10 s *)
(* timeout inside a with-block over the executor.                          *)
(***************************************************************************)
\* Most reads of one capture that take longer than the as_completed timeout.
MaxSlow == 1

SlotReads == [s \in MONITORED_STORAGE_SLOTS |->
                CASE s = 0 -> "slot0" [] s = 1 -> "slot1"
                  [] s = 2 -> "slot2" [] s = 3 -> "slot3"]

TaskReads == {"sender_balance", "receiver_balance", "code", "block_number"}

Reads == TaskReads \cup {SlotReads[s] : s \in MONITORED_STORAGE_SLOTS}

SlotOf(r) == CHOOSE s \in MONITORED_STORAGE_SLOTS : SlotReads[s] = r

ZeroWord == 0
ZeroHash == <<"0", 64>>

\* hashlib.sha256(code).hexdigest(), taken to be collision free.
Sha256(code) == <<"sha256", code>>

\* What the chain holds: the balances, the code, the block and the slot words.
ChainSenderBalance   == 1000
ChainReceiverBalance == 500
ChainCode            == <<96, 255, 0>>
ChainBlock           == 7
ChainSlot(s)         == s + 1

\* The locals of capture before any future is collected.
CaptureDefaults ==
    [sender_balance   |-> 0,
     receiver_balance |-> 0,
     code             |-> <<>>,
     block_number     |-> 0,
     storage_slots    |-> [s \in MONITORED_STORAGE_SLOTS |-> ZeroWord]]

\* A loop body that files the word of a slot read under the first slot that
\* has no word yet, in the order the reads complete.
DeliverByArrival(locals, r) ==
    CASE r = "sender_balance" -> [locals EXCEPT !.sender_balance = ChainSenderBalance]
      [] r = "receiver_balance" ->
            [locals EXCEPT !.receiver_balance = ChainReceiverBalance]
      [] r = "code" -> [locals EXCEPT !.code = ChainCode]
      [] r = "block_number" -> [locals EXCEPT !.block_number = ChainBlock]
      [] OTHER ->
            LET free == {s \in MONITORED_STORAGE_SLOTS :
                            locals.storage_slots[s] = ZeroWord}
                first == CHOOSE s \in free : \A t \in free : s <= t
            IN [locals EXCEPT !.storage_slots[first] = ChainSlot(SlotOf(r))]

\* The assignment the loop body makes for the result of read r.
Deliver(locals, r) ==
    CASE r = "sender_balance" -> [locals EXCEPT !.sender_balance = ChainSenderBalance]
      [] r = "receiver_balance" ->
            [locals EXCEPT !.receiver_balance = ChainReceiverBalance]
      [] r = "code" -> [locals EXCEPT !.code = ChainCode]
      [] r = "block_number" -> [locals EXCEPT !.block_number = ChainBlock]
      [] OTHER -> [locals EXCEPT !.storage_slots[SlotOf(r)] = ChainSlot(SlotOf(r))]

\* The StateSnapshot built from the locals after the with-block.
StateSnapshot(locals) ==
    [sender_balance_wei   |-> locals.sender_balance,
     receiver_balance_wei |-> locals.receiver_balance,
     contract_code_hash   |-> IF locals.code # <<>> THEN Sha256(locals.code)
                              ELSE ZeroHash,
     contract_code_size   |-> Len(locals.code),
     storage_slots        |-> locals.storage_slots,
     owner_slot           |-> locals.storage_slots[0],
     block_number         |-> locals.block_number]

\* How each read ends: "ok" returns the chain's value in time, "raises" ends in
\* an exception in time (get_block_number is the one read without a try/except
\* of its own), "slow" is still running when the 10 s of as_completed are over.
Outcomes ==
    {o \in [Reads -> {"ok", "raises", "slow"}] :
        /\ \A r \in Reads : o[r] = "raises" => r = "block_number"
        /\ Cardinality({r \in Reads : o[r] = "slow"}) <= MaxSlow}

InitSnapshot ==
    /\ outcome \in Outcomes
    /\ reads = [r \in Reads |-> "running"]
    /\ snapshot = CaptureDefaults
    /\ cap_pc = "collecting"
    /\ IdleScan /\ IdleRun /\ IdleDb /\ IdleRpc /\ IdleEdge

\* A worker thread finishes a read within the timeout.
ReadFinishes(r) ==
    /\ cap_pc = "collecting"
    /\ reads[r] = "running"
    /\ outcome[r] # "slow"
    /\ reads' = [reads EXCEPT ![r] = "finished"]
    /\ UNCHANGED <<outcome, snapshot, cap_pc>>
    /\ UNCHANGED <<scanVars, runVars, dbVars, rpcVars, edgeVars>>

\* as_completed yields a finished future and the loop body takes its result:
\* an exception is logged, a value is stored in the local of that read.
Collect(r) ==
    /\ cap_pc = "collecting"
    /\ reads[r] = "finished"
    /\ reads' = [reads EXCEPT ![r] = "collected"]
    /\ snapshot' = IF outcome[r] = "raises" THEN snapshot ELSE Deliver(snapshot, r)
    /\ UNCHANGED <<outcome, cap_pc>>
    /\ UNCHANGED <<scanVars, runVars, dbVars, rpcVars, edgeVars>>

\* Every future was yielded: the with-block ends and the snapshot is returned.
CaptureReturns ==
    /\ cap_pc = "collecting"
    /\ \A r \in Reads : reads[r] = "collected"
    /\ snapshot' = StateSnapshot(snapshot)
    /\ cap_pc' = "returned"
    /\ UNCHANGED <<reads, outcome>>
    /\ UNCHANGED <<scanVars, runVars, dbVars, rpcVars, edgeVars>>

\* The 10 s are over with a future pending: as_completed raises TimeoutError in
\* the for statement, outside the try blocks of the loop body, and the exception
\* leaves the with-block, whose exit is executor.shutdown(wait=True).
AsCompletedTimeout ==
    /\ cap_pc = "collecting"
    /\ \E r \in Reads : outcome[r] = "slow"
    /\ \A r \in Reads : outcome[r] # "slow" => reads[r] # "running"
    /\ cap_pc' = "shutdown"
    /\ UNCHANGED <<reads, outcome, snapshot>>
    /\ UNCHANGED <<scanVars, runVars, dbVars, rpcVars, edgeVars>>

\* A read that outlasted the timeout finishes while shutdown joins the workers.
SlowReadFinishes(r) ==
    /\ cap_pc = "shutdown"
    /\ reads[r] = "running"
    /\ reads' = [reads EXCEPT ![r] = "finished"]
    /\ UNCHANGED <<outcome, snapshot, cap_pc>>
    /\ UNCHANGED <<scanVars, runVars, dbVars, rpcVars, edgeVars>>

\* shutdown(wait=True) returns once no worker is running; the TimeoutError then
\* propagates out of capture.
CaptureRaises ==
    /\ cap_pc = "shutdown"
    /\ \A r \in Reads : reads[r] # "running"
    /\ cap_pc' = "raised"
    /\ UNCHANGED <<reads, outcome, snapshot>>
    /\ UNCHANGED <<scanVars, runVars, dbVars, rpcVars, edgeVars>>

NextSnapshot ==
    \/ \E r \in Reads : ReadFinishes(r)
    \/ \E r \in Reads : Collect(r)
    \/ CaptureReturns
    \/ AsCompletedTimeout
    \/ \E r \in Reads : SlowReadFinishes(r)
    \/ CaptureRaises

SpecSnapshot == InitSnapshot /\ [][NextSnapshot]_vars

\* The field of the returned snapshot that read r fills holds its default.
C8_FieldIsDefault(r) ==
    CASE r = "sender_balance" -> snapshot.sender_balance_wei = 0
      [] r = "receiver_balance" -> snapshot.receiver_balance_wei = 0
      [] r = "code" -> snapshot.contract_code_size = 0
                       /\ snapshot.contract_code_hash = ZeroHash
      [] r = "block_number" -> snapshot.block_number = 0
      [] OTHER -> snapshot.storage_slots[SlotOf(r)] = ZeroWord

\* C8: capture always returns a snapshot: a read that fails or does not complete
\* within the timeout leaves its default in the snapshot, capture does not raise
\* and does not wait for that read to finish.
C8_CaptureAlwaysReturns ==
    /\ cap_pc \notin {"shutdown", "raised"}
    /\ cap_pc = "returned" =>
          \A r \in Reads : outcome[r] \in {"raises", "slow"} => C8_FieldIsDefault(r)

\* What read r has put in the locals of capture, and what the chain holds for it.
LocalOf(locals, r) ==
    CASE r = "sender_balance" -> <<"balance", locals.sender_balance>>
      [] r = "receiver_balance" -> <<"balance", locals.receiver_balance>>
      [] r = "code" -> <<"code", locals.code>>
      [] r = "block_number" -> <<"block", locals.block_number>>
      [] OTHER -> <<"word", locals.storage_slots[SlotOf(r)]>>

\* The locals in which exactly the reads of `done` have delivered.
LocalsAfter(done) ==
    [sender_balance   |-> IF "sender_balance" \in done
                          THEN ChainSenderBalance ELSE 0,
     receiver_balance |-> IF "receiver_balance" \in done
                          THEN ChainReceiverBalance ELSE 0,
     code             |-> IF "code" \in done THEN ChainCode ELSE <<>>,
     block_number     |-> IF "block_number" \in done THEN ChainBlock ELSE 0,
     storage_slots    |-> [s \in MONITORED_STORAGE_SLOTS |->
                             IF SlotReads[s] \in done THEN ChainSlot(s)
                             ELSE ZeroWord]]

\* C27: the snapshot capture returns does not depend on the order in which the
\* parallel reads complete: it is the snapshot of the reads that succeeded,
\* whatever the order; while the results are collected, the result of a read
\* is in the field or the slot index of that read and in no other.
C27_SnapshotIndependentOfOrder ==
    LET delivered == {r \in Reads : reads[r] = "collected" /\ outcome[r] = "ok"}
    IN /\ cap_pc = "collecting" =>
             \A r \in Reads :
                 LocalOf(snapshot, r) = LocalOf(LocalsAfter(delivered), r)
       /\ cap_pc = "returned" =>
             snapshot = StateSnapshot(LocalsAfter({r \in Reads : outcome[r] = "ok"}))

C27_Witness ==
    /\ cap_pc = "returned"
    /\ \A s \in MONITORED_STORAGE_SLOTS :
          snapshot.storage_slots[s] = ChainSlot(s)
    /\ snapshot.sender_balance_wei = ChainSenderBalance
    /\ snapshot.block_number = 0

(***************************************************************************)
(* RPCProvider._call_with_retry and _connect_with_fallback                 *)
(* (rpc/provider.py): one invocation on a constructed provider.  Endpoint  *)
(* 1 is the primary URL, 2.. are config.RPC_FALLBACKS in order.  rpc_trace *)
(* is what the invocation did, in order: the underlying calls, the sleeps, *)
(* the "Killed RPC endpoint" warnings, the probes and the raise.           *)
(***************************************************************************)
\* Number of endpoints: the primary and the fallbacks.
MaxEndpoints == 3

MAX_RETRIES == 2

Endpoints == 1..MaxEndpoints

\* wait = attempt * 2
BackoffFromZero(n) == n * 2

\* wait = (attempt + 1) * 2
Backoff(n) == (n + 1) * 2

\* is_transient and attempt < MAX_RETRIES
ShouldRetry(res, n) == res = "transient" /\ n < MAX_RETRIES

\* _connect_with_fallback: the first candidate, in the order primary then
\* fallbacks, that answers the probe; 0 when none does (ConnectionError).
ConnectWithFallback(up) ==
    IF up = {} THEN 0 ELSE CHOOSE u \in up : \A v \in up : u <= v

InitRpc ==
    /\ active \in Endpoints
    /\ attempt = 0
    /\ rpc_pc = "calling"
    /\ rpc_trace = <<>>
    /\ IdleScan /\ IdleRun /\ IdleDb /\ IdleCap /\ IdleEdge

\* An iteration whose call succeeds: the value is returned.
CallReturns ==
    /\ rpc_pc = "calling"
    /\ attempt <= MAX_RETRIES
    /\ rpc_trace' = Append(rpc_trace, <<"call", active, "ok">>)
    /\ rpc_pc' = "returned"
    /\ UNCHANGED <<active, attempt>>
    /\ UNCHANGED <<scanVars, runVars, dbVars, capVars, edgeVars>>

\* An iteration whose call fails with a transient error, retries left: sleep and
\* continue with the next attempt.
CallRetried ==
    /\ rpc_pc = "calling"
    /\ attempt <= MAX_RETRIES
    /\ ShouldRetry("transient", attempt)
    /\ rpc_trace' = rpc_trace \o << <<"call", active, "transient">>,
                                    <<"wait", Backoff(attempt), "">> >>
    /\ attempt' = attempt + 1
    /\ UNCHANGED <<active, rpc_pc>>
    /\ UNCHANGED <<scanVars, runVars, dbVars, capVars, edgeVars>>

\* An iteration whose call fails otherwise (or with no retry left): the endpoint
\* is declared dead and the probe re-run.  If no endpoint answers the error is
\* re-raised; else the next iteration runs on the selected endpoint, and when
\* this was the last iteration the loop ends and ConnectionError is raised.
CallFailsOver ==
    /\ rpc_pc = "calling"
    /\ attempt <= MAX_RETRIES
    /\ \E res \in {"transient", "error"}, up \in SUBSET Endpoints :
        LET selected == ConnectWithFallback(up)
            events   == << <<"call", active, res>>, <<"killed", active, "">>,
                           <<"probe", selected, "">> >>
        IN /\ ~ShouldRetry(res, attempt)
           /\ IF selected = 0
              THEN /\ rpc_trace' = rpc_trace \o events \o << <<"raise", 0, "error">> >>
                   /\ rpc_pc' = "raised"
                   /\ UNCHANGED <<active, attempt>>
              ELSE /\ active' = selected
                   /\ attempt' = attempt + 1
                   /\ IF attempt = MAX_RETRIES
                      THEN /\ rpc_trace' = rpc_trace \o events
                                           \o << <<"raise", 0, "ConnectionError">> >>
                           /\ rpc_pc' = "raised"
                      ELSE /\ rpc_trace' = rpc_trace \o events
                           /\ rpc_pc' = "calling"
    /\ UNCHANGED <<scanVars, runVars, dbVars, capVars, edgeVars>>

NextRpc == CallReturns \/ CallRetried \/ CallFailsOver

SpecRpc == InitRpc /\ [][NextRpc]_vars

\* The indexes of the underlying calls in the trace, and the calls made up to k.
C9_Calls == {k \in DOMAIN rpc_trace : rpc_trace[k][1] = "call"}
C9_CallsUpTo(k) == Cardinality({j \in C9_Calls : j <= k})

\* The waits of the trace in order.
C9_Waits ==
    LET w == SelectSeq(rpc_trace, LAMBDA e : e[1] = "wait")
    IN [k \in DOMAIN w |-> w[k][2]]

C10_RaisesOnlyWhenAllProbesFail ==
    /\ \A k \in DOMAIN rpc_trace :
            (rpc_trace[k][1] = "probe" /\ rpc_trace[k][2] # 0) =>
                IF k = Len(rpc_trace)
                THEN rpc_pc = "calling" /\ active = rpc_trace[k][2]
                ELSE rpc_trace[k + 1][1] = "call"
                     /\ rpc_trace[k + 1][2] = rpc_trace[k][2]
    /\ rpc_pc = "raised" =>
            \E k \in DOMAIN rpc_trace :
                /\ rpc_trace[k] = <<"probe", 0, "">>
                /\ k + 1 = Len(rpc_trace)

(***************************************************************************)
(* Connection set-up (rpc/provider.py): RPCProvider.__init__ and the probe *)
(* loop of _connect_with_fallback.                                         *)
(***************************************************************************)
\* Number of configured fallback endpoints.
MaxFallbacks == 3

\* config.RPC_FALLBACKS: the fallbacks, numbered in configured order.
RPC_FALLBACKS == [k \in 1..MaxFallbacks |-> k]

\* The URLs a provider is constructed with: a fallback, or a URL of its own.
Urls == 1..(MaxFallbacks + 1)

\* candidates = fallbacks other than the primary, then the primary
CandidatesFallbacksFirst(url) ==
    SelectSeq(RPC_FALLBACKS, LAMBDA u : u # url) \o <<url>>

\* candidates = [self.rpc_url] + [u for u in config.RPC_FALLBACKS if u != self.rpc_url]
Candidates(url) ==
    <<url>> \o SelectSeq(RPC_FALLBACKS, LAMBDA u : u # url)

\* __init__ up to the call of _connect_with_fallback; answering is the set of
\* endpoints that are connected and answer the chain-id read.
InitConnect ==
    /\ rpc_url \in Urls
    /\ answering \in SUBSET Urls
    /\ active = rpc_url
    /\ candidate = 1
    /\ conn_pc = "probing"
    /\ probed = <<>>
    /\ attempt = 0 /\ rpc_pc = "idle" /\ rpc_trace = <<>>
    /\ IdleScan /\ IdleRun /\ IdleDb /\ IdleCap /\ IdleRead /\ IdleDiff /\ IdlePol /\ IdleTrace /\ IdlePipe

\* One iteration of the probe loop whose endpoint answers: it becomes active
\* and _connect_with_fallback returns.
ProbeAnswers ==
    /\ conn_pc = "probing"
    /\ candidate <= Len(Candidates(rpc_url))
    /\ LET url == Candidates(rpc_url)[candidate]
       IN /\ url \in answering
          /\ active' = url
          /\ probed' = Append(probed, url)
    /\ conn_pc' = "connected"
    /\ UNCHANGED <<rpc_url, answering, candidate>>
    /\ UNCHANGED <<attempt, rpc_pc, rpc_trace>>
    /\ UNCHANGED <<scanVars, runVars, dbVars, capVars, readVars, diffVars, polVars, traceVars, pipeVars>>

\* One iteration whose endpoint does not answer: the error is kept and the
\* loop goes to the next candidate.
ProbeFails ==
    /\ conn_pc = "probing"
    /\ candidate <= Len(Candidates(rpc_url))
    /\ LET url == Candidates(rpc_url)[candidate]
       IN /\ url \notin answering
          /\ probed' = Append(probed, url)
    /\ candidate' = candidate + 1
    /\ UNCHANGED <<rpc_url, answering, conn_pc, active>>
    /\ UNCHANGED <<attempt, rpc_pc, rpc_trace>>
    /\ UNCHANGED <<scanVars, runVars, dbVars, capVars, readVars, diffVars, polVars, traceVars, pipeVars>>

\* The loop ran out of candidates: ConnectionError.
ConnectRaises ==
    /\ conn_pc = "probing"
    /\ candidate > Len(Candidates(rpc_url))
    /\ conn_pc' = "raised"
    /\ UNCHANGED <<rpc_url, answering, candidate, probed, active>>
    /\ UNCHANGED <<attempt, rpc_pc, rpc_trace>>
    /\ UNCHANGED <<scanVars, runVars, dbVars, capVars, readVars, diffVars, polVars, traceVars, pipeVars>>

NextConnect == ProbeAnswers \/ ProbeFails \/ ConnectRaises

SpecConnect == InitConnect /\ [][NextConnect]_vars

\* The configured endpoints of the provider, and the place of each in the
\* order primary, then fallbacks in configured order.
C11_Configured == {rpc_url} \cup {RPC_FALLBACKS[k] : k \in DOMAIN RPC_FALLBACKS}
C11_Place(u) == IF u = rpc_url THEN 0 ELSE u

\* C11: construction probes the primary and then the fallbacks in configured
\* order; once connected, the active endpoint answers and no configured
\* endpoint earlier in the order does; construction raises exactly when no
\* configured endpoint answers.
C11_FirstAnsweringIsActive ==
    /\ \A j, k \in DOMAIN probed :
            j < k => C11_Place(probed[j]) < C11_Place(probed[k])
    /\ conn_pc = "connected" =>
            /\ active \in answering \cap C11_Configured
            /\ \A u \in C11_Configured :
                    C11_Place(u) < C11_Place(active) =>
                        u \notin answering /\ \E k \in DOMAIN probed : probed[k] = u
    /\ conn_pc = "raised" => answering \cap C11_Configured = {}
    /\ conn_pc = "connected" => answering \cap C11_Configured # {}

\* A fallback is active although a later fallback answers too.
C11_Witness ==
    /\ conn_pc = "connected"
    /\ active # rpc_url
    /\ \E u \in answering \cap C11_Configured : C11_Place(u) > C11_Place(active)

(***************************************************************************)
(* The read operations of the chain access layer (rpc/provider.py): each   *)
(* runs _call_with_retry and hands its outcome to the caller.              *)
(***************************************************************************)
ReadOps == {"get_balance", "get_transaction_count", "get_code",
            "get_storage_at", "get_block_number", "get_chain_id",
            "get_gas_price", "get_block_base_fee"}

\* The read operations whose body is try: ... except Exception: return default.
\* get_block_base_fee reads through get_block, which returns {} on failure.
GuardedReads == ReadOps \ {"get_chain_id", "get_block_number"}

\* The value a guarded read returns from its except branch.
ReadDefault(op) ==
    IF op = "get_code" THEN "b''"
    ELSE IF op = "get_storage_at"
         THEN "0x0000000000000000000000000000000000000000000000000000000000000000"
    ELSE "0"

InitRead ==
    /\ read_op \in ReadOps
    /\ read_result = <<>>
    /\ active \in Endpoints
    /\ attempt = 0
    /\ rpc_pc = "calling"
    /\ rpc_trace = <<>>
    /\ IdleScan /\ IdleRun /\ IdleDb /\ IdleCap /\ IdleConn /\ IdleDiff /\ IdlePol /\ IdleTrace /\ IdlePipe

\* _call_with_retry returned a value: the read returns it.
ReadReturns ==
    /\ rpc_pc = "returned"
    /\ read_result = <<>>
    /\ read_result' = <<"returned", "value">>
    /\ UNCHANGED <<read_op, connVars, rpcVars>>
    /\ UNCHANGED <<scanVars, runVars, dbVars, capVars, diffVars, polVars, traceVars, pipeVars>>

\* _call_with_retry raised inside a try: the read returns its default.
ReadDegrades ==
    /\ rpc_pc = "raised"
    /\ read_result = <<>>
    /\ read_op \in GuardedReads
    /\ read_result' = <<"returned", ReadDefault(read_op)>>
    /\ UNCHANGED <<read_op, connVars, rpcVars>>
    /\ UNCHANGED <<scanVars, runVars, dbVars, capVars, diffVars, polVars, traceVars, pipeVars>>

\* _call_with_retry raised with no try around it: the exception reaches the
\* caller of the read.
ReadRaises ==
    /\ rpc_pc = "raised"
    /\ read_result = <<>>
    /\ read_op \notin GuardedReads
    /\ read_result' = <<"raised", rpc_trace[Len(rpc_trace)][3]>>
    /\ UNCHANGED <<read_op, connVars, rpcVars>>
    /\ UNCHANGED <<scanVars, runVars, dbVars, capVars, diffVars, polVars, traceVars, pipeVars>>

NextRead ==
    \/ CallReturns \/ CallRetried \/ CallFailsOver
    \/ ReadReturns \/ ReadDegrades \/ ReadRaises

SpecRead == InitRead /\ [][NextRead]_vars

\* The documented defaults: balance and nonce 0, code empty, storage slot the
\* zero word.
C12_Documented ==
    [get_balance |-> "0", get_transaction_count |-> "0", get_code |-> "b''",
     get_storage_at |->
        "0x0000000000000000000000000000000000000000000000000000000000000000"]

\* C12: a read operation that has finished has returned to its caller, never
\* raised; when its call failed after retry it returned its documented default.
C12_ReadsNeverRaise ==
    read_result # <<>> =>
        /\ read_result[1] = "returned"
        /\ (rpc_pc = "raised" /\ read_op \in DOMAIN C12_Documented) =>
                read_result[2] = C12_Documented[read_op]

(***************************************************************************)
(* The state diff (core/state_diff.py, utils/helpers.py).  A drain         *)
(* percentage is held in tenths of a percent, truncated.                   *)
(***************************************************************************)
\* drain_percentage without the test for a balance that did not decrease.
drain_percentage_signed(before_wei, after_wei) ==
    IF before_wei = 0 THEN 0
    ELSE LET delta == before_wei - after_wei
         IN IF delta < 0 THEN 0 - (((0 - delta) * 1000) \div before_wei)
            ELSE (delta * 1000) \div before_wei

\* helpers.drain_percentage
drain_percentage(before_wei, after_wei) ==
    IF before_wei = 0 THEN 0
    ELSE LET delta == before_wei - after_wei
         IN IF delta <= 0 THEN 0
            ELSE (delta * 1000) \div before_wei

\* The storage slot mapping of a snapshot read with .get(slot, zero word).
SlotGet(slots, s) == IF s \in DOMAIN slots THEN slots[s] ELSE ZeroWord

\* compute with an ownership test that flags every change of the owner slot.
StateDiffComputeAnyChange(before, after) ==
    LET all_slots == DOMAIN before.storage_slots \cup DOMAIN after.storage_slots
        changed == {s \in all_slots :
                        SlotGet(before.storage_slots, s) # SlotGet(after.storage_slots, s)}
    IN [sender_balance_delta_wei   |-> after.sender_balance_wei - before.sender_balance_wei,
        receiver_balance_delta_wei |-> after.receiver_balance_wei - before.receiver_balance_wei,
        sender_drain_pct           |-> drain_percentage(before.sender_balance_wei,
                                                        after.sender_balance_wei),
        ownership_changed          |-> before.owner_slot # after.owner_slot,
        storage_changes            |-> [s \in changed |->
                                          [before |-> SlotGet(before.storage_slots, s),
                                           after  |-> SlotGet(after.storage_slots, s)]],
        code_changed               |-> before.contract_code_hash # after.contract_code_hash,
        block_delta                |-> after.block_number - before.block_number]

\* StateDiffEngine.compute
StateDiffCompute(before, after) ==
    LET all_slots == DOMAIN before.storage_slots \cup DOMAIN after.storage_slots
        changed == {s \in all_slots :
                        SlotGet(before.storage_slots, s) # SlotGet(after.storage_slots, s)}
    IN [sender_balance_delta_wei   |-> after.sender_balance_wei - before.sender_balance_wei,
        receiver_balance_delta_wei |-> after.receiver_balance_wei - before.receiver_balance_wei,
        sender_drain_pct           |-> drain_percentage(before.sender_balance_wei,
                                                        after.sender_balance_wei),
        ownership_changed          |-> /\ before.owner_slot # after.owner_slot
                                       /\ after.owner_slot # ZeroWord,
        storage_changes            |-> [s \in changed |->
                                          [before |-> SlotGet(before.storage_slots, s),
                                           after  |-> SlotGet(after.storage_slots, s)]],
        code_changed               |-> before.contract_code_hash # after.contract_code_hash,
        block_delta                |-> after.block_number - before.block_number]

\* Sender balances and owner slot words of the snapshots compared.
Balances == {0, 400, 496, 1000, 1200}
OwnerWords == {ZeroWord, 1, 2}

\* The snapshots compared: slot 0 is the owner slot, the other monitored slots
\* hold the chain's words.
Snapshots ==
    {[sender_balance_wei   |-> b,
      receiver_balance_wei |-> ChainReceiverBalance,
      contract_code_hash   |-> IF code # <<>> THEN Sha256(code) ELSE ZeroHash,
      contract_code_size   |-> Len(code),
      storage_slots        |-> [s \in MONITORED_STORAGE_SLOTS |->
                                    IF s = 0 THEN w ELSE ChainSlot(s)],
      owner_slot           |-> w,
      block_number         |-> ChainBlock] :
        b \in Balances, w \in OwnerWords, code \in {<<>>, ChainCode}}

InitDiff ==
    /\ pre_snapshot \in Snapshots
    /\ post_snapshot \in Snapshots
    /\ request = NoRecord /\ state_diff = NoRecord /\ opcode_profile = NoRecord
    /\ behavior_report = NoRecord /\ policy = NoRecord
    /\ risk_report = NoRecord /\ final_report = NoRecord /\ run_pc = "snapshots"
    /\ IdleScan /\ IdleDb /\ IdleCap /\ IdleRpc /\ IdleConn /\ IdleRead /\ IdlePol /\ IdleTrace /\ IdlePipe

\* diff_engine.compute(pre_snapshot, post_snapshot)
DiffCompute ==
    /\ run_pc = "snapshots"
    /\ state_diff' = StateDiffCompute(pre_snapshot, post_snapshot)
    /\ run_pc' = "diffed"
    /\ UNCHANGED <<request, opcode_profile, behavior_report, policy, risk_report,
                   final_report>>
    /\ UNCHANGED <<scanVars, dbVars, capVars, rpcVars, edgeVars>>

NextDiff == DiffCompute

SpecDiff == InitDiff /\ [][NextDiff]_vars

\* C18: ownership_changed is set exactly when the owner slot differs between
\* the snapshots and the new value is not the zero word: clearing a nonzero
\* owner is not flagged, a change to a different nonzero word is, from the zero
\* word as from a nonzero one, and an unchanged slot is not.
C18_OwnershipFlag ==
    run_pc = "diffed" =>
        LET old == pre_snapshot.owner_slot
            new == post_snapshot.owner_slot
        IN /\ (old # ZeroWord /\ new = ZeroWord) => ~state_diff.ownership_changed
           /\ (old = ZeroWord /\ new # ZeroWord) => state_diff.ownership_changed
           /\ (old # ZeroWord /\ new # ZeroWord /\ old # new) =>
                    state_diff.ownership_changed
           /\ old = new => ~state_diff.ownership_changed

\* A cleared owner slot: slot 0 is among the storage changes, ownership is not
\* flagged.
C18_Witness ==
    /\ run_pc = "diffed"
    /\ pre_snapshot.owner_slot = 1
    /\ post_snapshot.owner_slot = ZeroWord
    /\ ~state_diff.ownership_changed
    /\ 0 \in DOMAIN state_diff.storage_changes

\* C19: the drain percentage is (before - after) / before * 100 when the
\* balance was positive and decreased, and 0 otherwise; it is never negative;
\* (1000, 400) gives 60, (1000, 1200) gives 0 and (0, x) gives 0.
C19_DrainPercentage ==
    run_pc = "diffed" =>
        LET before == pre_snapshot.sender_balance_wei
            after  == post_snapshot.sender_balance_wei
            pct    == state_diff.sender_drain_pct
        IN /\ pct >= 0
           /\ (before > 0 /\ after < before) =>
                /\ pct * before <= (before - after) * 100 * 10
                /\ (before - after) * 100 * 10 < (pct + 1) * before
           /\ ~(before > 0 /\ after < before) => pct = 0
           /\ (before = 1000 /\ after = 400) => pct = 60 * 10
           /\ (before = 1000 /\ after = 1200) => pct = 0
           /\ before = 0 => pct = 0

\* The balance rose from 1000 to 1200 and the drain is 0.
C19_Witness ==
    /\ run_pc = "diffed"
    /\ pre_snapshot.sender_balance_wei = 1000
    /\ post_snapshot.sender_balance_wei = 1200
    /\ state_diff.sender_drain_pct = 0
    /\ state_diff.sender_balance_delta_wei = 200

(***************************************************************************)
(* The policy document (core/policy_engine.py): PolicyEngine.set and       *)
(* save_policy.  policy is the document in memory, policy_file the one     *)
(* persisted (NoRecord while no file exists).                              *)
(***************************************************************************)
\* Calls of set in one run.
MaxSets == 2

\* The key and value arguments of set: a key of DEFAULT_POLICY with a value of
\* its type, or a key that is not in DEFAULT_POLICY.
SetArgs ==
    {<<"max_drain", 10>>, <<"max_drain", 50>>,
     <<"disallow_selfdestruct", TRUE>>, <<"disallow_selfdestruct", FALSE>>,
     <<"max_nested_calls", 6>>,
     <<"policy_version", 1>>, <<"policy_version", 7>>,
     <<"max_gas", 10>>}

\* set that writes the value and leaves the version alone.
PolicySetNoBump(doc, key, value) == [doc EXCEPT ![key] = value]

\* The two assignments of set: the value, then the version read back from the
\* document and incremented.
PolicySet(doc, key, value) ==
    LET written == [doc EXCEPT ![key] = value]
    IN [written EXCEPT !["policy_version"] = written["policy_version"] + 1]

\* The engine after __init__: the persisted document merged over the defaults,
\* or the defaults when there is no file.
InitPolicySet ==
    /\ policy \in Policies
    /\ policy_file \in {policy, NoRecord}
    /\ policy_file = NoRecord => policy = DEFAULT_POLICY
    /\ set_log = <<>>
    /\ request = NoRecord /\ state_diff = NoRecord /\ opcode_profile = NoRecord
    /\ behavior_report = NoRecord /\ risk_report = NoRecord
    /\ final_report = NoRecord /\ run_pc = "idle"
    /\ IdleScan /\ IdleDb /\ IdleCap /\ IdleRpc /\ IdleConn /\ IdleRead /\ IdleDiff /\ IdleTrace /\ IdlePipe

\* set with a key that is not in DEFAULT_POLICY: ValueError before any write.
SetRejects ==
    /\ Len(set_log) < MaxSets
    /\ \E a \in SetArgs :
        /\ a[1] \notin DOMAIN DEFAULT_POLICY
        /\ set_log' = Append(set_log, <<a[1], a[2], "ValueError">>)
    /\ UNCHANGED <<policy, policy_file>>
    /\ UNCHANGED <<request, state_diff, opcode_profile, behavior_report,
                   risk_report, final_report, run_pc>>
    /\ UNCHANGED <<scanVars, dbVars, capVars, rpcVars, connVars, readVars, diffVars, traceVars, pipeVars>>

\* set with a known key: the document is updated and saved.
SetSaves ==
    /\ Len(set_log) < MaxSets
    /\ \E a \in SetArgs :
        /\ a[1] \in DOMAIN DEFAULT_POLICY
        /\ policy' = PolicySet(policy, a[1], a[2])
        /\ policy_file' = policy'
        /\ set_log' = Append(set_log, <<a[1], a[2], "returned">>)
    /\ UNCHANGED <<request, state_diff, opcode_profile, behavior_report,
                   risk_report, final_report, run_pc>>
    /\ UNCHANGED <<scanVars, dbVars, capVars, rpcVars, connVars, readVars, diffVars, traceVars, pipeVars>>

\* set with a known key whose save_policy cannot open the file: the document
\* in memory is updated, the IOError is re-raised.
SetSaveFails ==
    /\ Len(set_log) < MaxSets
    /\ \E a \in SetArgs :
        /\ a[1] \in DOMAIN DEFAULT_POLICY
        /\ policy' = PolicySet(policy, a[1], a[2])
        /\ set_log' = Append(set_log, <<a[1], a[2], "IOError">>)
    /\ UNCHANGED policy_file
    /\ UNCHANGED <<request, state_diff, opcode_profile, behavior_report,
                   risk_report, final_report, run_pc>>
    /\ UNCHANGED <<scanVars, dbVars, capVars, rpcVars, connVars, readVars, diffVars, traceVars, pipeVars>>

NextPolicySet == SetRejects \/ SetSaves \/ SetSaveFails

SpecPolicySet == InitPolicySet /\ [][NextPolicySet]_vars

\* C17: a call of set with an unknown key raises and changes neither the
\* document in memory, its version, nor the persisted document; a call that
\* returns has raised the version by exactly 1 over its value before the call
\* and leaves the persisted document equal to the one in memory.
C17_SetBumpsVersionByOne ==
    [][Len(set_log') = Len(set_log) + 1 =>
        LET call == set_log'[Len(set_log')]
        IN /\ call[1] \notin DOMAIN DEFAULT_POLICY =>
                /\ call[3] = "ValueError"
                /\ policy' = policy
                /\ policy_file' = policy_file
           /\ call[3] = "returned" =>
                /\ policy'.policy_version = policy.policy_version + 1
                /\ policy_file' = policy']_vars

(***************************************************************************)
(* Trace retrieval (rpc/provider.py): the loop of debug_trace_call over    *)
(* the active endpoint and the fallbacks.                                  *)
(***************************************************************************)
\* How an endpoint answers debug_traceCall: "result" is a response with a
\* non-null result, "null" one with an error or a null result, "fails" a
\* request that raises (timeout, refused connection, a body that is not JSON).
TraceAnswers == {"result", "null", "fails"}

\* the fallbacks alone
TraceUrlsFallbacksOnly(url) == RPC_FALLBACKS

\* [self._active_url] + config.RPC_FALLBACKS
TraceUrls(url) == <<url>> \o RPC_FALLBACKS

InitTrace ==
    /\ active \in Urls
    /\ trace_support \in [Urls -> TraceAnswers]
    /\ queried = <<>>
    /\ trace_result = None
    /\ trace_pc = "querying"
    /\ attempt = 0 /\ rpc_pc = "idle" /\ rpc_trace = <<>>
    /\ IdleScan /\ IdleRun /\ IdleDb /\ IdleCap
    /\ IdleConn /\ IdleRead /\ IdleDiff /\ IdlePol /\ IdlePipe

\* One iteration whose response holds a non-null result: it is returned.
TraceFound ==
    /\ trace_pc = "querying"
    /\ Len(queried) < Len(TraceUrls(active))
    /\ LET url == TraceUrls(active)[Len(queried) + 1]
       IN /\ trace_support[url] = "result"
          /\ queried' = Append(queried, url)
          /\ trace_result' = <<"trace", url>>
    /\ trace_pc' = "returned"
    /\ UNCHANGED <<trace_support, rpcVars>>
    /\ UNCHANGED <<scanVars, runVars, dbVars, capVars>>
    /\ UNCHANGED <<connVars, readVars, diffVars, polVars, pipeVars>>

\* One iteration without a result, or whose request raised: the loop goes on.
TraceMissing ==
    /\ trace_pc = "querying"
    /\ Len(queried) < Len(TraceUrls(active))
    /\ LET url == TraceUrls(active)[Len(queried) + 1]
       IN /\ trace_support[url] # "result"
          /\ queried' = Append(queried, url)
    /\ UNCHANGED <<trace_support, trace_result, trace_pc, rpcVars>>
    /\ UNCHANGED <<scanVars, runVars, dbVars, capVars>>
    /\ UNCHANGED <<connVars, readVars, diffVars, polVars, pipeVars>>

\* The loop is over: debug_trace_call returns None.
TraceUnavailable ==
    /\ trace_pc = "querying"
    /\ Len(queried) = Len(TraceUrls(active))
    /\ trace_result' = None
    /\ trace_pc' = "returned"
    /\ UNCHANGED <<trace_support, queried, rpcVars>>
    /\ UNCHANGED <<scanVars, runVars, dbVars, capVars>>
    /\ UNCHANGED <<connVars, readVars, diffVars, polVars, pipeVars>>

NextTrace == TraceFound \/ TraceMissing \/ TraceUnavailable

SpecTrace == InitTrace /\ [][NextTrace]_vars

\* C20: the active endpoint is queried first and then every fallback in turn,
\* whatever the earlier ones answered or however they failed; the result
\* returned is that of the first endpoint in this order with a non-null result;
\* when no endpoint has one, every endpoint has been queried and the value
\* returned is None, the value of a run with no trace.
C20_FirstTraceInOrder ==
    /\ queried # <<>> => queried[1] = active
    /\ \A k \in DOMAIN queried : k > 1 => queried[k] = RPC_FALLBACKS[k - 1]
    /\ \A k \in DOMAIN queried :
            k < Len(queried) => trace_support[queried[k]] # "result"
    /\ (trace_pc = "returned" /\ trace_result # None) =>
            /\ trace_support[queried[Len(queried)]] = "result"
            /\ trace_result = <<"trace", queried[Len(queried)]>>
    /\ (trace_pc = "returned" /\ trace_result = None) =>
            /\ Len(queried) = 1 + Len(RPC_FALLBACKS)
            /\ \A k \in DOMAIN queried : trace_support[queried[k]] # "result"
    /\ trace_pc \in {"querying", "returned"}

\* The request to the active endpoint raised, the first fallback had no result,
\* and the trace of a later fallback is returned.
C20_Witness ==
    /\ trace_pc = "returned"
    /\ trace_result # None
    /\ Len(queried) >= 3
    /\ trace_support[queried[1]] = "fails"
    /\ trace_support[queried[2]] = "null"

\* ---------------------------------------------------------------------------
\* One invocation of the simulate command: main connects, cmd_simulate runs the
\* eight steps and saves the record.
\* ---------------------------------------------------------------------------

DEFAULT_GAS_LIMIT == 3000000

\* The steps of cmd_simulate in the order of its code.
StageOrder ==
    <<"validate", "snapshot", "execute", "diff", "scan", "behave", "score",
      "policy">>

StageIndex(stage) == CHOOSE k \in DOMAIN StageOrder : StageOrder[k] = stage

\* A pipeline that scans the bytecode before it computes the diff.
StageAfterScanFirst(stage) ==
    CASE stage = "execute" -> "scan"
      [] stage = "scan" -> "diff"
      [] stage = "diff" -> "behave"
      [] stage = "policy" -> "save"
      [] OTHER -> StageOrder[StageIndex(stage) + 1]

\* Where control is after a step has returned: the next step, and the save
\* after step 8.
StageAfter(stage) ==
    IF StageIndex(stage) = Len(StageOrder) THEN "save"
    ELSE StageOrder[StageIndex(stage) + 1]

\* Addresses on the command line: "" is an empty one, "0xZZ" is not an
\* address, "0xa" and "0xb" stand for 40 hex digits in lower case and "0xA",
\* "0xB" for their checksum forms.
is_valid_address(address) == address \in {"0xa", "0xA", "0xb", "0xB"}

to_checksum_address(address) ==
    IF address \in {"0xa", "0xA"} THEN "0xA" ELSE "0xB"

\* TransactionInterceptor._validate_address.
ValidateAddress(address) ==
    IF address = "" THEN [error |-> "Missing address", value |-> None]
    ELSE IF ~is_valid_address(address)
    THEN [error |-> "Invalid Ethereum address", value |-> None]
    ELSE [error |-> None, value |-> to_checksum_address(address)]

\* Calldata on the command line: "" is an absent --data, "AB" lacks the 0x
\* prefix, "0xZZ" is not hex.
HasHexPrefix(data) == data \in {"0x", "0xAB", "0xab", "0xZZ"}

is_valid_hex(data) == data \in {"0x", "", "0xAB", "0xab"}

Lower(data) == IF data = "0xAB" THEN "0xab" ELSE data

\* TransactionInterceptor._validate_data.
ValidateData(data) ==
    IF data = "" THEN [error |-> None, value |-> "0x"]
    ELSE LET prefixed == IF HasHexPrefix(data) THEN data ELSE "0x" \o data
         IN IF ~is_valid_hex(prefixed)
            THEN [error |-> "Invalid hex data payload", value |-> None]
            ELSE [error |-> None, value |-> Lower(prefixed)]

\* The checks of intercept in the order it makes them: the first that fails
\* is the InterceptorError raised; the gas limit is settled after them.
InterceptChecks(a) ==
    LET sender == ValidateAddress(a.sender)
        to     == ValidateAddress(a.to)
        \* cmd_simulate passes args.data or "0x"
        data   == ValidateData(IF a.data = "" THEN "0x" ELSE a.data)
    IN IF sender.error # None THEN [error |-> sender.error]
       ELSE IF to.error # None THEN [error |-> to.error]
       ELSE IF a.value < 0
       THEN [error |-> "Transaction value cannot be negative."]
       ELSE IF data.error # None THEN [error |-> data.error]
       ELSE [error |-> None, sender |-> sender.value, to |-> to.value,
             value_wei |-> a.value, data |-> data.value]

\* TransactionInterceptor._estimate_gas: the estimate with a 20% buffer, capped.
EstimateGasLimit(estimated) == Min((estimated * 12) \div 10, DEFAULT_GAS_LIMIT)

\* What the command line can carry: --gas 0 is also an absent --gas, and a
\* --value in ETH is named by the wei eth_to_wei makes of it (0 - 1 for a
\* negative one).
CliArgs ==
    [sender : {"", "0xZZ", "0xa"}, to : {"", "0xZZ", "0xb"},
     value : {0 - 1, 0, 447}, data : {"", "AB", "0xZZ"}, gas : {0, 100000}]

\* What the node answers to eth_estimateGas, eth_gasPrice and eth_getLogs.
GasEstimates == {21000, 90000}
GasPrices == {0, 1}
LogCounts == {0, 3}

\* How eth_call ends: it returns, or web3 raises ContractLogicError with one
\* of three messages, or it raises another exception.
CallOutcomes ==
    {"returns", "execution reverted: Not owner", "execution reverted: ",
     "execution reverted", "invalid opcode", "connection refused"}

ContractLogicErrors ==
    {"execution reverted: Not owner", "execution reverted: ",
     "execution reverted", "invalid opcode"}

\* ShadowExecutor._extract_revert_reason on the messages above.
ExtractRevertReason(error_str) ==
    CASE error_str = "execution reverted: Not owner" -> "Not owner"
      [] error_str = "execution reverted: " -> ""
      [] error_str = "execution reverted" -> "execution reverted"
      [] OTHER -> "Transaction reverted (no reason provided)"

\* A _get_real_gas that asks for an estimate whether the call reverted or not.
GetRealGasAlwaysEstimates(gas_limit, reverted, estimated) == estimated

\* ShadowExecutor._get_real_gas: estimated is what provider.estimate_gas returns.
GetRealGas(gas_limit, reverted, estimated) ==
    IF reverted THEN gas_limit ELSE estimated

\* A call tree as callTracer gives it; NoRecord stands for no trace.
CallTrace ==
    [type  |-> "CALL",
     calls |-> << [type |-> "STATICCALL", calls |-> <<>>],
                  [type |-> "CALL", calls |-> <<>>] >>]

Traces == {NoRecord, CallTrace}

\* ShadowExecutor.execute: the SimulationResult for an ending of eth_call, the
\* answer of estimate_gas and the result of _get_trace.
Execute(req, call, estimated, trace) ==
    LET success  == call = "returns"
        reverted == call # "returns"
        revert_reason ==
            IF call = "returns" THEN None
            ELSE IF call \in ContractLogicErrors THEN ExtractRevertReason(call)
            ELSE call
    IN [success       |-> success,
        return_data   |-> IF success THEN "01" ELSE "0x",
        gas_used      |-> GetRealGas(req.gas_limit, reverted, estimated),
        gas_limit     |-> req.gas_limit,
        reverted      |-> reverted,
        revert_reason |-> revert_reason,
        trace         |-> trace]

\* SimulationResult.to_dict leaves the trace out.
ResultToDict(result) ==
    [f \in DOMAIN result \ {"trace"} |-> result[f]]

\* A build_post_snapshot that takes the block number of the moment it runs,
\* one block after the capture.
BuildPostSnapshotRereadsBlock(before, value_wei, gas_used, gas_price_wei, live_slots) ==
    [before EXCEPT
        !.sender_balance_wei =
            Max(0, before.sender_balance_wei - value_wei - gas_used * gas_price_wei),
        !.receiver_balance_wei = before.receiver_balance_wei + value_wei,
        !.storage_slots = live_slots,
        !.owner_slot = SlotGet(live_slots, 0),
        !.block_number = before.block_number + 1]

\* StateDiffEngine.build_post_snapshot: the balances after the value and the
\* gas cost, and the monitored slots as they are read again.
BuildPostSnapshot(before, value_wei, gas_used, gas_price_wei, live_slots) ==
    [before EXCEPT
        !.sender_balance_wei =
            Max(0, before.sender_balance_wei - value_wei - gas_used * gas_price_wei),
        !.receiver_balance_wei = before.receiver_balance_wei + value_wei,
        !.storage_slots = live_slots,
        !.owner_slot = SlotGet(live_slots, 0)]

\* OpcodeAnalyzer._scan_bytecode as a function of the code.
RECURSIVE ScanFrom(_, _, _)
ScanFrom(code, cur, acc) ==
    IF cur >= Len(code) THEN acc
    ELSE LET byte == code[cur + 1]
             name == CounterOf(byte)
         IN ScanFrom(code, NextCursor(byte, cur),
                     IF name = None THEN acc ELSE [acc EXCEPT ![name] = @ + 1])

\* OpcodeAnalyzer.analyze on the code get_code returned.
AnalyzeCode(code) ==
    IF code = <<>> THEN OpcodeProfile(ZeroCounts, 0)
    ELSE OpcodeProfile(ScanFrom(code, 0, ZeroCounts), Len(code))

\* A node of a call tree: callTracer gives "type" and "calls", a tracer that
\* lists the instructions gives "opcodes"; each of them can be missing.
UpperType(t) ==
    CASE t = "call" -> "CALL" [] t = "staticcall" -> "STATICCALL" [] OTHER -> t

NodeType(call) == IF "type" \in DOMAIN call THEN UpperType(call.type) ELSE ""

NodeCalls(call) == IF "calls" \in DOMAIN call THEN call.calls ELSE <<>>

NodeSstores(call) ==
    IF "opcodes" \in DOMAIN call
    THEN Cardinality({k \in DOMAIN call.opcodes : call.opcodes[k] = "SSTORE"})
    ELSE 0

CALL_TYPES == {"CALL", "DELEGATECALL", "CALLCODE", "STATICCALL"}

\* A recurse that takes the root of the tree to be at depth 1.
RECURSIVE TraceMaxDepthFromOne(_, _)
TraceMaxDepthFromOne(call, depth) ==
    LET below == {TraceMaxDepthFromOne(NodeCalls(call)[k], depth + 1) :
                     k \in DOMAIN NodeCalls(call)}
    IN IF below = {} THEN depth + 1
       ELSE CHOOSE m \in below : \A d \in below : d <= m

\* BehaviorAnalyzer._analyze_trace: max_depth once recurse(call, depth) is done.
RECURSIVE TraceMaxDepth(_, _)
TraceMaxDepth(call, depth) ==
    LET below == {TraceMaxDepth(NodeCalls(call)[k], depth + 1) :
                     k \in DOMAIN NodeCalls(call)}
    IN IF below = {} THEN depth
       ELSE CHOOSE m \in below : \A d \in below : d <= m

\* BehaviorAnalyzer._analyze_trace: what recurse adds to the counter of the
\* nodes whose type is one of `types`.
RECURSIVE TraceCount(_, _), TraceCountSeq(_, _)
TraceCount(call, types) ==
    (IF NodeType(call) \in types THEN 1 ELSE 0)
    + TraceCountSeq(NodeCalls(call), types)
TraceCountSeq(calls, types) ==
    IF calls = <<>> THEN 0
    ELSE TraceCount(Head(calls), types) + TraceCountSeq(Tail(calls), types)

\* BehaviorAnalyzer._analyze_trace: what recurse adds to storage_writes.
RECURSIVE TraceSstores(_), TraceSstoresSeq(_)
TraceSstores(call) == NodeSstores(call) + TraceSstoresSeq(NodeCalls(call))
TraceSstoresSeq(calls) ==
    IF calls = <<>> THEN 0
    ELSE TraceSstores(Head(calls)) + TraceSstoresSeq(Tail(calls))

\* A gas estimate that puts 500001 gas and more six levels deep.
DepthFromGasDeeper(gas_used) ==
    IF gas_used > 500000 THEN 6
    ELSE IF gas_used > 200000 THEN 3
    ELSE IF gas_used > 100000 THEN 2
    ELSE IF gas_used > 50000 THEN 1
    ELSE 0

\* The depth BehaviorAnalyzer.analyze derives from the gas when it has no trace.
DepthFromGas(gas_used) ==
    IF gas_used > 500000 THEN 4
    ELSE IF gas_used > 200000 THEN 3
    ELSE IF gas_used > 100000 THEN 2
    ELSE IF gas_used > 50000 THEN 1
    ELSE 0

\* The whole percentages t for which (t / 100) * 100.0 in double precision is
\* below t: 29 gives 28.999999999999996, 57 and 58 give 56.99999999999999 and
\* 57.99999999999999.
RoundsBelow == {29, 57, 58}

\* A comparison that takes usage above the threshold only.
GasAnomalyStrict(gas_used, gas_limit, threshold) ==
    gas_limit > 0 /\ gas_used * 100 > threshold * gas_limit

\* gas_limit > 0 and (gas_used / gas_limit) * 100.0 >= threshold, in the
\* doubles of the code.  With gas below 2^31 the quotient is off a whole
\* percentage by far more than an ulp unless it is that percentage, and then
\* the product is the double of the set above.
GasAnomaly(gas_used, gas_limit, threshold) ==
    /\ gas_limit > 0
    /\ \/ gas_used * 100 > threshold * gas_limit
       \/ /\ gas_used * 100 = threshold * gas_limit
          /\ threshold \notin RoundsBelow

\* An analysis that takes every recent log for an external interaction.
ExternalFromLogsUncapped(opcode_call_count, log_count) ==
    IF log_count > 0 THEN Max(opcode_call_count, log_count)
    ELSE opcode_call_count

\* external_interactions without a trace: the CALL count of the bytecode,
\* raised to the number of recent logs, of which at most 10 count.
ExternalFromLogs(opcode_call_count, log_count) ==
    IF log_count > 0 THEN Max(opcode_call_count, Min(log_count, 10))
    ELSE opcode_call_count

\* BehaviorAnalyzer._count_recent_logs: the number of logs the node returns, 0
\* when the request fails (an answer below 0 stands for the failure).
CountRecentLogs(answer) == IF answer < 0 THEN 0 ELSE answer

\* BehaviorAnalyzer.analyze under config.GAS_ANOMALY_THRESHOLD = threshold.
\* The usage is in hundredths of a percent; the gas limits of the model are
\* multiples of 100, which keeps the product in range.
Analyze(threshold, result, gas_limit, opcode_sstore_count, opcode_call_count, log_count) ==
    LET pct == IF gas_limit > 0
               THEN (result.gas_used * 100) \div (gas_limit \div 100) ELSE 0
        gas_anomaly == GasAnomaly(result.gas_used, gas_limit, threshold)
        traced == result.trace # NoRecord
        depth == IF traced THEN TraceMaxDepth(result.trace, 0)
                 ELSE DepthFromGas(result.gas_used)
        ext == IF traced THEN TraceCount(result.trace, CALL_TYPES)
               ELSE ExternalFromLogs(opcode_call_count, log_count)
        writes == IF traced THEN TraceSstores(result.trace)
                  ELSE opcode_sstore_count
        static == IF traced THEN TraceCount(result.trace, {"STATICCALL"}) ELSE 0
        flags ==
            (IF gas_anomaly THEN <<<<"Gas usage anomaly", Fmt1(pct)>>>> ELSE <<>>)
            \o (IF traced /\ ext > 3
                THEN <<<<"Multiple external contract interactions", ext>>>>
                ELSE <<>>)
            \o (IF ~traced /\ log_count > 0
                THEN <<<<"Contract emitted events", log_count>>>> ELSE <<>>)
            \o (IF depth > MAX_NESTED_CALLS
                THEN <<<<"Excessive nested calls", depth>>>> ELSE <<>>)
            \o (IF writes > 5
                THEN <<<<"Multiple storage writes detected", writes>>>> ELSE <<>>)
            \o (IF result.reverted
                THEN <<<<"Transaction reverted",
                         IF result.revert_reason \in {None, ""}
                         THEN "unknown reason" ELSE result.revert_reason>>>>
                ELSE <<>>)
    IN [nested_call_depth     |-> depth,
        gas_anomaly           |-> gas_anomaly,
        gas_usage_pct         |-> pct,
        external_interactions |-> ext,
        storage_write_count   |-> writes,
        static_call_count     |-> static,
        behavior_flags        |-> flags]

\* The SimulationRecord cmd_simulate builds after step 8.
SimulationRecord(req, result, sd, op, bh, rr) ==
    [simulation_id      |-> req.simulation_id,
     timestamp          |-> req.timestamp,
     request            |-> req,
     result             |-> ResultToDict(result),
     state_diff         |-> StateDiffToDict(sd),
     opcode_profile     |-> OpcodeProfileToDict(op),
     behavior_report    |-> bh,
     risk_report        |-> rr,
     deterministic_hash |-> rr.deterministic_hash]

\* What the run has done so far: entries <<"chain", operation, how it ended>>,
\* <<"call", how eth_call ended, "ended">>, <<"stage", step, "done">>,
\* <<"save", "record", "committed">> and <<"exit", reason, "status 1">>.
ChainEvent(op, ok) == <<"chain", op, IF ok THEN "ok" ELSE "failed">>
StageEvent(stage) == <<"stage", stage, "done">>
ExitEvent(reason) == <<"exit", reason, "status 1">>

\* The locals of capture when every read returned the chain's value.
ChainLocals(code) ==
    [sender_balance   |-> ChainSenderBalance,
     receiver_balance |-> ChainReceiverBalance,
     code             |-> code,
     block_number     |-> ChainBlock,
     storage_slots    |-> [s \in MONITORED_STORAGE_SLOTS |-> ChainSlot(s)]]

\* The code deployed at the recipient: none, PUSH1 0xff STOP, SSTORE SELFDESTRUCT.
DeployedCodes == {<<>>, ChainCode, <<85, 255>>}

\* provider.estimate_gas: the node's estimate, or DEFAULT_GAS_LIMIT when the
\* request fails (always, once no endpoint can be reached).
EstimateAnswers(n) ==
    IF n = "up" THEN GasEstimates \cup {DEFAULT_GAS_LIMIT} ELSE {DEFAULT_GAS_LIMIT}

Reached(op) == ChainEvent(op, net = "up")

\* The word in monitored slot s of the recipient once `written` transactions of
\* other senders have been mined: each of them writes slot 0.
SlotOnChain(written, s) ==
    IF s = 0 /\ written > 0 THEN ChainSlot(s) + 16 * written ELSE ChainSlot(s)

\* provider.get_storage_at: the word on chain, or the zero word when the
\* request fails.
GetStorageAt(reachable, written, s) ==
    IF reachable = "up" THEN SlotOnChain(written, s) ELSE ZeroWord

InitPipeline ==
    /\ cli \in CliArgs
    /\ net \in {"up", "down"}
    /\ history = <<>>
    /\ pipe_pc = "connect"
    /\ sim_result = NoRecord
    /\ gas_price = 0
    /\ gas_threshold = GAS_ANOMALY_THRESHOLD
    /\ log_answer = 0
    /\ bytecode \in DeployedCodes
    /\ i = 0 /\ counts = <<>> /\ scan_pc = "idle"
    /\ request = NoRecord /\ state_diff = NoRecord /\ opcode_profile = NoRecord
    /\ behavior_report = NoRecord /\ risk_report = NoRecord
    /\ final_report = NoRecord
    /\ policy = DEFAULT_POLICY
    /\ run_pc = "idle"
    /\ IdleDb /\ IdleCap /\ IdleRpc
    /\ IdleConn /\ IdleRead /\ IdleDiff /\ IdlePol /\ IdleTrace

\* What no step of the invocation changes.
PipelineFrame ==
    /\ UNCHANGED <<capVars, rpcVars, connVars, readVars, polVars, traceVars>>
    /\ UNCHANGED <<bytecode, i, counts, scan_pc>>
    /\ UNCHANGED <<cli, policy, run_pc, original_id, original_hash, chain,
                   orig_chain, computations, replay_verdict, gas_threshold,
                   log_answer>>

\* main: RPCProvider(rpc_url) answers and the four reads of the banner follow.
MainConnects ==
    /\ pipe_pc = "connect"
    /\ net = "up"
    /\ history' = history \o
          <<ChainEvent("probe", TRUE), ChainEvent("get_chain_id", TRUE),
            ChainEvent("get_block_number", TRUE),
            ChainEvent("get_gas_price", TRUE),
            ChainEvent("get_block_base_fee", TRUE)>>
    /\ pipe_pc' = "validate"
    /\ UNCHANGED <<net, sim_result, gas_price, db, diffVars, request, state_diff,
                   opcode_profile, behavior_report, risk_report, final_report>>
    /\ PipelineFrame

\* main: no endpoint answers the probe, ConnectionError, sys.exit(1).
MainConnectFails ==
    /\ pipe_pc = "connect"
    /\ net = "down"
    /\ history' = history \o
          <<ChainEvent("probe", FALSE), ExitEvent("ConnectionError")>>
    /\ pipe_pc' = "exited"
    /\ UNCHANGED <<net, sim_result, gas_price, db, diffVars, request, state_diff,
                   opcode_profile, behavior_report, risk_report, final_report>>
    /\ PipelineFrame

\* Step 1: intercept raises InterceptorError, cmd_simulate prints it and exits.
Step1Rejects ==
    /\ pipe_pc = "validate"
    /\ InterceptChecks(cli).error # None
    /\ history' = Append(history, ExitEvent("InterceptorError"))
    /\ pipe_pc' = "exited"
    /\ UNCHANGED <<net, sim_result, gas_price, db, diffVars, request, state_diff,
                   opcode_profile, behavior_report, risk_report, final_report>>
    /\ PipelineFrame

\* Step 1: intercept returns the request; without a gas limit it asks the node
\* for an estimate.  The id and the timestamp it generates are called 1.
Step1Intercepts ==
    /\ pipe_pc = "validate"
    /\ InterceptChecks(cli).error = None
    /\ \E estimated \in EstimateAnswers(net) :
        LET checked   == InterceptChecks(cli)
            estimates == cli.gas <= 0
            gas_limit == IF estimates THEN EstimateGasLimit(estimated)
                         ELSE cli.gas
        IN /\ request' = Request(checked.sender, checked.to, checked.value_wei,
                                 checked.data, gas_limit, 1, 1)
           /\ history' = history
                \o (IF estimates THEN <<Reached("estimate_gas")>> ELSE <<>>)
                \o <<StageEvent("validate")>>
    /\ pipe_pc' = StageAfter("validate")
    /\ UNCHANGED <<net, sim_result, gas_price, db, diffVars, state_diff,
                   opcode_profile, behavior_report, risk_report, final_report>>
    /\ PipelineFrame

\* Step 2: capture returns the snapshot (the defaults when no read succeeds)
\* and the gas price is read.
Step2Snapshot ==
    /\ pipe_pc = "snapshot"
    /\ pre_snapshot' = StateSnapshot(
          IF net = "up"
          THEN [ChainLocals(bytecode) EXCEPT
                   !.storage_slots = [s \in MONITORED_STORAGE_SLOTS |->
                                         GetStorageAt(net, chain, s)]]
          ELSE CaptureDefaults)
    /\ gas_price' \in (IF net = "up" THEN GasPrices ELSE {0})
    /\ history' = history \o
          <<Reached("capture"), Reached("get_gas_price"), StageEvent("snapshot")>>
    /\ pipe_pc' = StageAfter("snapshot")
    /\ UNCHANGED <<net, sim_result, db, post_snapshot, request, state_diff,
                   opcode_profile, behavior_report, risk_report, final_report>>
    /\ PipelineFrame

\* Step 2: a read of capture is still running after the timeout; the
\* TimeoutError of as_completed leaves cmd_simulate and main exits.
Step2TimesOut ==
    /\ pipe_pc = "snapshot"
    /\ history' = history \o <<Reached("capture"), ExitEvent("TimeoutError")>>
    /\ pipe_pc' = "exited"
    /\ UNCHANGED <<net, sim_result, gas_price, db, diffVars, request, state_diff,
                   opcode_profile, behavior_report, risk_report, final_report>>
    /\ PipelineFrame

\* Step 3: ShadowExecutor.execute: eth_call, the gas, the trace.
Step3Execute ==
    /\ pipe_pc = "execute"
    /\ \E call \in CallOutcomes, estimated \in EstimateAnswers(net),
          trace \in Traces :
        /\ net = "down" => call = "connection refused" /\ trace = NoRecord
        /\ sim_result' = Execute(request, call, estimated, trace)
        /\ history' = history
             \o <<Reached("eth_call"), <<"call", call, "ended">>>>
             \o (IF call = "returns" THEN <<Reached("estimate_gas")>> ELSE <<>>)
             \o <<Reached("debug_trace_call"), StageEvent("execute")>>
    /\ pipe_pc' = StageAfter("execute")
    /\ UNCHANGED <<net, gas_price, db, diffVars, request, state_diff,
                   opcode_profile, behavior_report, risk_report, final_report>>
    /\ PipelineFrame

\* Step 4: build_post_snapshot reads the slots again, compute takes the diff.
Step4Diff ==
    /\ pipe_pc = "diff"
    /\ LET live == [s \in DOMAIN pre_snapshot.storage_slots |->
                        GetStorageAt(net, chain, s)]
           after == BuildPostSnapshot(pre_snapshot, request.value_wei,
                                      sim_result.gas_used, gas_price, live)
       IN /\ post_snapshot' = after
          /\ state_diff' = StateDiffCompute(pre_snapshot, after)
    /\ history' = history \o <<Reached("get_storage_at"), StageEvent("diff")>>
    /\ pipe_pc' = StageAfter("diff")
    /\ UNCHANGED <<net, sim_result, gas_price, db, pre_snapshot, request,
                   opcode_profile, behavior_report, risk_report, final_report>>
    /\ PipelineFrame

\* Step 5: OpcodeAnalyzer.analyze fetches the code and scans it.
Step5Scan ==
    /\ pipe_pc = "scan"
    /\ opcode_profile' = AnalyzeCode(IF net = "up" THEN bytecode ELSE <<>>)
    /\ history' = history \o <<Reached("get_code"), StageEvent("scan")>>
    /\ pipe_pc' = StageAfter("scan")
    /\ UNCHANGED <<net, sim_result, gas_price, db, diffVars, request, state_diff,
                   behavior_report, risk_report, final_report>>
    /\ PipelineFrame

\* Step 6: BehaviorAnalyzer.analyze; without a trace it counts recent logs.
Step6Behave ==
    /\ pipe_pc = "behave"
    /\ \E log_count \in (IF net = "up" THEN LogCounts ELSE {0}) :
        behavior_report' = Analyze(gas_threshold, sim_result, request.gas_limit,
                                   opcode_profile.sstore_count,
                                   opcode_profile.call_count, log_count)
    /\ history' = history
         \o (IF sim_result.trace = NoRecord THEN <<Reached("get_logs")>> ELSE <<>>)
         \o <<StageEvent("behave")>>
    /\ pipe_pc' = StageAfter("behave")
    /\ UNCHANGED <<net, sim_result, gas_price, db, diffVars, request, state_diff,
                   opcode_profile, risk_report, final_report>>
    /\ PipelineFrame

\* Step 7: RiskEngine.compute.
Step7Score ==
    /\ pipe_pc = "score"
    /\ risk_report' = RiskCompute(state_diff, opcode_profile, behavior_report,
                                  request.simulation_id)
    /\ history' = Append(history, StageEvent("score"))
    /\ pipe_pc' = StageAfter("score")
    /\ UNCHANGED <<net, sim_result, gas_price, db, diffVars, request, state_diff,
                   opcode_profile, behavior_report, final_report>>
    /\ PipelineFrame

\* Step 8: PolicyEngine.apply.
Step8Policy ==
    /\ pipe_pc = "policy"
    /\ final_report' = PolicyApply(policy, risk_report,
                                   state_diff.sender_drain_pct,
                                   opcode_profile.selfdestruct_count > 0,
                                   opcode_profile.delegatecall_count > 0,
                                   behavior_report.nested_call_depth)
    /\ history' = Append(history, StageEvent("policy"))
    /\ pipe_pc' = StageAfter("policy")
    /\ UNCHANGED <<net, sim_result, gas_price, db, diffVars, request, state_diff,
                   opcode_profile, behavior_report, risk_report>>
    /\ PipelineFrame

\* db.save_simulation(record) commits.
SaveRecord ==
    /\ pipe_pc = "save"
    /\ db' = SaveSimulation(db, SimulationRecord(request, sim_result, state_diff,
                                                 opcode_profile, behavior_report,
                                                 final_report))
    /\ history' = Append(history, <<"save", "record", "committed">>)
    /\ pipe_pc' = "saved"
    /\ UNCHANGED <<net, sim_result, gas_price, diffVars, request, state_diff,
                   opcode_profile, behavior_report, risk_report, final_report>>
    /\ PipelineFrame

\* db.save_simulation raises sqlite3.Error again and main exits.
SaveRecordFails ==
    /\ pipe_pc = "save"
    /\ history' = Append(history, ExitEvent("sqlite3.Error"))
    /\ pipe_pc' = "exited"
    /\ UNCHANGED <<net, sim_result, gas_price, db, diffVars, request, state_diff,
                   opcode_profile, behavior_report, risk_report, final_report>>
    /\ PipelineFrame

\* The network: after the client was constructed every endpoint goes away.
EndpointsGoDown ==
    /\ net = "up"
    /\ pipe_pc \in {StageOrder[k] : k \in DOMAIN StageOrder}
    /\ net' = "down"
    /\ UNCHANGED <<history, pipe_pc, sim_result, gas_price, db, diffVars, request,
                   state_diff, opcode_profile, behavior_report, risk_report,
                   final_report>>
    /\ PipelineFrame

\* The chain: a transaction of another sender is mined during the run and
\* writes monitored slot 0 of the recipient.
OthersWrite ==
    /\ pipe_pc \in {StageOrder[k] : k \in DOMAIN StageOrder}
    /\ chain = 0
    /\ chain' = chain + 1
    /\ history' = Append(history, <<"others", "write slot 0", "mined">>)
    /\ UNCHANGED <<net, pipe_pc, sim_result, gas_price, db, diffVars, request,
                   state_diff, opcode_profile, behavior_report, risk_report,
                   final_report>>
    /\ UNCHANGED <<capVars, rpcVars, connVars, readVars, polVars, traceVars>>
    /\ UNCHANGED <<bytecode, i, counts, scan_pc>>
    /\ UNCHANGED <<cli, policy, run_pc, original_id, original_hash, orig_chain,
                   computations, replay_verdict, gas_threshold, log_answer>>

NextPipeline ==
    \/ MainConnects \/ MainConnectFails
    \/ Step1Rejects \/ Step1Intercepts
    \/ Step2Snapshot \/ Step2TimesOut
    \/ Step3Execute \/ Step4Diff \/ Step5Scan \/ Step6Behave
    \/ Step7Score \/ Step8Policy
    \/ SaveRecord \/ SaveRecordFails
    \/ EndpointsGoDown \/ OthersWrite

SpecPipeline == InitPipeline /\ [][NextPipeline]_vars

\* The steps completed, the failed chain accesses and the exits recorded so far.
StagesDone == SelectSeq(history, LAMBDA e : e[1] = "stage")
Saves == SelectSeq(history, LAMBDA e : e[1] = "save")
Exits == SelectSeq(history, LAMBDA e : e[1] = "exit")
Position(event) == CHOOSE k \in DOMAIN history : history[k] = event
ChainAccesses == {k \in DOMAIN history : history[k][1] = "chain"}
Unreachable == {k \in ChainAccesses : history[k][3] = "failed"}

\* C13: the steps completed so far are the first steps of the order validate,
\* snapshot, execute, diff, scan, behave, score, policy, each of them once; the
\* record is saved once, after step 8 has completed; a run that ended in an
\* error has saved no record.
C13_StagesInOrderThenSave ==
    /\ Len(StagesDone) <= Len(StageOrder)
    /\ \A k \in DOMAIN StagesDone : StagesDone[k][2] = StageOrder[k]
    /\ Len(Saves) <= 1
    /\ DOMAIN db # {} <=> Len(Saves) = 1
    /\ Len(Saves) = 1 =>
          /\ Len(StagesDone) = Len(StageOrder)
          /\ Position(Saves[1]) > Position(StageEvent("policy"))
          /\ pipe_pc = "saved"
    /\ pipe_pc = "saved" => DOMAIN db = {request.simulation_id}
    /\ pipe_pc = "exited" <=> Len(Exits) = 1
    /\ Len(Exits) > 0 => DOMAIN db = {}

C13_Witness ==
    /\ pipe_pc = "saved"
    /\ Len(StagesDone) = 8
    /\ StagesDone[8] = StageEvent("policy")
    /\ db[request.simulation_id].risk_report = final_report

\* C14: an invocation that ended in a validation error made no chain access
\* before the error and persisted no record.
C14_ValidationBeforeChainAccess ==
    (Exits # <<>> /\ Exits[1][2] = "InterceptorError") =>
        /\ ChainAccesses = {}
        /\ DOMAIN db = {}

\* C15: a run in which a chain access found every endpoint unreachable saves
\* no record.
C15_NoRecordAfterExhaustion ==
    Unreachable # {} => /\ Saves = <<>>
                        /\ DOMAIN db = {}

\* The endings of eth_call recorded so far.
CallsEnded == SelectSeq(history, LAMBDA e : e[1] = "call")

\* C16: when eth_call ends in a revert, execute returns a result with reverted
\* true, success false, a revert reason and gas_used equal to the request's gas
\* limit; the run is then at one of the later steps or at the save, it ends in
\* an error only if the database refuses the record, and the record saved
\* after step 8 holds the reverted result.
C16_RevertIsAnOutcome ==
    (CallsEnded # <<>> /\ CallsEnded[1][2] \in ContractLogicErrors) =>
        /\ sim_result # NoRecord
        /\ sim_result.reverted
        /\ ~sim_result.success
        /\ sim_result.revert_reason # None
        /\ sim_result.gas_used = request.gas_limit
        /\ StagesDone[Len(StagesDone)][2]
              \in {"execute", "diff", "scan", "behave", "score", "policy"}
        /\ pipe_pc \in {"diff", "scan", "behave", "score", "policy", "save",
                        "saved", "exited"}
        /\ Exits # <<>> =>
              /\ Exits[1][2] = "sqlite3.Error"
              /\ StagesDone[Len(StagesDone)] = StageEvent("policy")
        /\ pipe_pc = "saved" =>
              /\ Len(StagesDone) = Len(StageOrder)
              /\ db[request.simulation_id].result = ResultToDict(sim_result)

C16_Witness ==
    /\ pipe_pc = "saved"
    /\ CallsEnded[1][2] = "execution reverted: Not owner"
    /\ db[request.simulation_id].result.reverted
    /\ db[request.simulation_id].result.revert_reason = "Not owner"
    /\ StagesDone[8] = StageEvent("policy")

\* Where capture and the re-read of build_post_snapshot are in the history, and
\* whether a write of another sender was mined between the two.
CaptureAt == CHOOSE k \in DOMAIN history : history[k][2] = "capture"
RereadAt == CHOOSE k \in DOMAIN history : history[k][2] = "get_storage_at"
WrittenBetweenReads ==
    \E k \in DOMAIN history :
        history[k][1] = "others" /\ CaptureAt < k /\ k < RereadAt

\* C21: when no monitored slot changed on chain between the reads of the
\* pre-snapshot and the re-reads of the post-snapshot, the diff has no storage
\* change and no ownership change; a slot the diff reports as changed is a slot
\* that was written on chain between the two reads.
C21_SlotChangesAreChainChanges ==
    state_diff # NoRecord =>
        /\ ~WrittenBetweenReads =>
              /\ DOMAIN state_diff.storage_changes = {}
              /\ ~state_diff.ownership_changed
        /\ \A s \in DOMAIN state_diff.storage_changes :
              WrittenBetweenReads /\ s = 0

\* C23: build_post_snapshot returns the sender balance less the value and the
\* gas cost, floored at zero, and the receiver balance plus the value; it
\* leaves the pre-snapshot as capture returned it; when the re-read of the
\* slots fails, the post-snapshot keeps the slot values of the pre-snapshot.
C23_PostSnapshotKeepsSlotsOnFailure ==
    [][pipe_pc = "diff" /\ pipe_pc' = StageAfter("diff") =>
          /\ post_snapshot'.sender_balance_wei =
                Max(0, pre_snapshot.sender_balance_wei
                         - (request.value_wei + sim_result.gas_used * gas_price))
          /\ post_snapshot'.receiver_balance_wei =
                pre_snapshot.receiver_balance_wei + request.value_wei
          /\ pre_snapshot' = pre_snapshot
          /\ net = "down" =>
                post_snapshot'.storage_slots = pre_snapshot.storage_slots]_vars

\* C28: in every run the diff has code_changed false and a block delta of 0,
\* and the code-change rule is not among the triggered rules.
C28_NoCodeChangeNoBlockDelta ==
    /\ state_diff # NoRecord =>
          ~state_diff.code_changed /\ state_diff.block_delta = 0
    /\ risk_report # NoRecord =>
          \A k \in DOMAIN risk_report.triggered_rules :
              risk_report.triggered_rules[k][1] # "Contract bytecode modified"

C28_Witness ==
    /\ pipe_pc = "saved"
    /\ net = "up"
    /\ chain = 1
    /\ pre_snapshot.block_number = ChainBlock
    /\ pre_snapshot.contract_code_size > 0
    /\ Len(risk_report.triggered_rules) > 0

\* ---------------------------------------------------------------------------
\* BehaviorAnalyzer.analyze on the result of ShadowExecutor.execute, followed
\* by RiskEngine.compute and PolicyEngine.apply under the default policy.
\* ---------------------------------------------------------------------------

\* Values of GAS_ANOMALY_THRESHOLD in the environment: the default and two
\* others.
Thresholds == {57, GAS_ANOMALY_THRESHOLD, 100}

\* What eth_getLogs answers: it fails, or it returns this many logs.
LogAnswers == {0 - 1, 0, 3, 12}

\* What estimate_gas answers for a call that returns: the values on both sides
\* of each limit of the depth estimate, and the thresholds of a 100000 limit.
GasUsedAnswers ==
    {21000, 50000, 50001, 57000, 80000, 100000, 100001, 200000, 200001,
     500000, 500001}

\* A tree seven nodes deep from a tracer that lists instructions: types in
\* lower case, a CREATE, a node without a type, nodes without calls.
DeepTrace ==
    [type    |-> "CALL",
     opcodes |-> <<"SSTORE", "SLOAD", "SSTORE">>,
     calls   |->
        << [type  |-> "call",
            calls |->
              << [type    |-> "DELEGATECALL",
                  opcodes |-> <<"SSTORE", "SSTORE", "SSTORE", "SSTORE">>,
                  calls   |->
                    << [type  |-> "CREATE",
                        calls |->
                          << [type  |-> "staticcall",
                              calls |->
                                << [calls |-> << [type |-> "CALLCODE"] >>] >>]
                          >>] >>] >>],
           [type |-> "STATICCALL"] >>]

\* A trace that is a single CREATE.
LeafTrace == [type |-> "CREATE"]

BehaveTraces == {NoRecord, CallTrace, DeepTrace, LeafTrace}

\* Profiles of bytecode with no, 2 and 11 CALLs and with no and 6 SSTOREs.
BehaveProfiles ==
    {OpcodeProfile([ZeroCounts EXCEPT !["sstore"] = a, !["call"] = b], 64) :
        a \in {0, 6}, b \in {0, 2, 11}}

InitBehave ==
    /\ gas_threshold \in Thresholds
    /\ log_answer \in LogAnswers
    /\ \E gas \in {0, 100000}, estimated \in {90000, DEFAULT_GAS_LIMIT} :
          request = Request("0xA", "0xB", 0, "0x",
                            IF gas <= 0 THEN EstimateGasLimit(estimated) ELSE gas,
                            1, 1)
    /\ \E call \in {"returns", "execution reverted: Not owner",
                    "connection refused"},
          used \in GasUsedAnswers, trace \in BehaveTraces :
          sim_result = Execute(request, call, used, trace)
    /\ opcode_profile \in BehaveProfiles
    /\ state_diff = QuietDiff
    /\ behavior_report = NoRecord /\ risk_report = NoRecord
    /\ final_report = NoRecord
    /\ policy = DEFAULT_POLICY
    /\ run_pc = "analyze"
    /\ cli = NoRecord /\ net = "idle" /\ history = <<>> /\ pipe_pc = "idle"
    /\ gas_price = 0
    /\ IdleScan /\ IdleDb /\ IdleCap /\ IdleRpc
    /\ IdleConn /\ IdleRead /\ IdleDiff /\ IdlePol /\ IdleTrace

BehaveFrame ==
    /\ UNCHANGED <<request, state_diff, opcode_profile, policy>>
    /\ UNCHANGED <<scanVars, dbVars, capVars, rpcVars, edgeVars>>

\* Step 6: BehaviorAnalyzer.analyze.
BehaveAnalyze ==
    /\ run_pc = "analyze"
    /\ behavior_report' = Analyze(gas_threshold, sim_result, request.gas_limit,
                                  opcode_profile.sstore_count,
                                  opcode_profile.call_count,
                                  CountRecentLogs(log_answer))
    /\ run_pc' = "score"
    /\ UNCHANGED <<risk_report, final_report>>
    /\ BehaveFrame

\* Step 7: RiskEngine.compute.
BehaveScore ==
    /\ run_pc = "score"
    /\ risk_report' = RiskCompute(state_diff, opcode_profile, behavior_report,
                                  request.simulation_id)
    /\ run_pc' = "policy"
    /\ UNCHANGED <<behavior_report, final_report>>
    /\ BehaveFrame

\* Step 8: PolicyEngine.apply.
BehavePolicy ==
    /\ run_pc = "policy"
    /\ final_report' = PolicyApply(policy, risk_report,
                                   state_diff.sender_drain_pct,
                                   opcode_profile.selfdestruct_count > 0,
                                   opcode_profile.delegatecall_count > 0,
                                   behavior_report.nested_call_depth)
    /\ run_pc' = "done"
    /\ UNCHANGED <<behavior_report, risk_report>>
    /\ BehaveFrame

NextBehave == BehaveAnalyze \/ BehaveScore \/ BehavePolicy

SpecBehave == InitBehave /\ [][NextBehave]_vars

\* What the reports of the run hold.
Analysed == behavior_report # NoRecord
Untraced == sim_result.trace = NoRecord
HasFlag(name) ==
    \E k \in DOMAIN behavior_report.behavior_flags :
        behavior_report.behavior_flags[k][1] = name
HasRule(name) ==
    \E k \in DOMAIN risk_report.triggered_rules :
        risk_report.triggered_rules[k][1] = name
HasViolation(name) ==
    \E k \in DOMAIN final_report.policy_violations :
        final_report.policy_violations[k][1] = name

\* C24: without a trace, storage_write_count is the SSTORE count of the
\* bytecode, nested_call_depth is the bucket of the gas used (0 up to 50000,
\* 1 up to 100000, 2 up to 200000, 3 up to 500000, 4 above) and
\* external_interactions is the CALL count of the bytecode, raised to at least
\* min(log count, 10) when there are logs; a log fetch that fails leaves it at
\* the CALL count and the analysis returns its report.
C24_UntracedCountsAndBuckets ==
    Analysed /\ Untraced =>
        LET used  == sim_result.gas_used
            calls == opcode_profile.call_count
            ext   == behavior_report.external_interactions
            depth == behavior_report.nested_call_depth
        IN /\ behavior_report.storage_write_count = opcode_profile.sstore_count
           /\ used <= 50000 => depth = 0
           /\ used > 50000 /\ used <= 100000 => depth = 1
           /\ used > 100000 /\ used <= 200000 => depth = 2
           /\ used > 200000 /\ used <= 500000 => depth = 3
           /\ used > 500000 => depth = 4
           /\ log_answer <= 0 => ext = calls
           /\ log_answer > 0 =>
                 /\ ext >= calls
                 /\ ext >= Min(log_answer, 10)
                 /\ ext \in {calls, Min(log_answer, 10)}

C24_Witness ==
    /\ Analysed /\ Untraced
    /\ log_answer = 12
    /\ opcode_profile.call_count = 2
    /\ behavior_report.external_interactions = 10
    /\ behavior_report.nested_call_depth = 4
    /\ behavior_report.storage_write_count = 6

\* The nodes of a call tree, each named by the path of indices from the root.
RECURSIVE PathsOf(_)
PathsOf(call) ==
    {<<>>} \cup UNION {{<<k>> \o p : p \in PathsOf(NodeCalls(call)[k])} :
                          k \in DOMAIN NodeCalls(call)}

RECURSIVE NodeAt(_, _)
NodeAt(call, path) ==
    IF path = <<>> THEN call ELSE NodeAt(NodeCalls(call)[Head(path)], Tail(path))

\* C25: with a trace, the analysis counts every node of the tree once: the
\* depth is that of the deepest node (the root is at 0), the external
\* interactions are the nodes of type CALL, DELEGATECALL, CALLCODE or
\* STATICCALL, the static calls are the STATICCALL nodes, the storage writes
\* are the SSTORE entries of the opcode lists of all nodes; the flag for
\* multiple external interactions is there if and only if there are more than
\* 3 nodes of a call type.
C25_TraceWalk ==
    Analysed /\ ~Untraced =>
        LET nodes   == PathsOf(sim_result.trace)
            typed(types) ==
                Cardinality({p \in nodes :
                                NodeType(NodeAt(sim_result.trace, p)) \in types})
            sstores == [p \in nodes |-> NodeSstores(NodeAt(sim_result.trace, p))]
        IN /\ \E p \in nodes : Len(p) = behavior_report.nested_call_depth
           /\ \A p \in nodes : Len(p) <= behavior_report.nested_call_depth
           /\ behavior_report.external_interactions = typed(CALL_TYPES)
           /\ behavior_report.static_call_count = typed({"STATICCALL"})
           /\ behavior_report.storage_write_count = SumOver(nodes, sstores)
           /\ HasFlag("Multiple external contract interactions")
                 <=> typed(CALL_TYPES) > 3

C25_Witness ==
    /\ Analysed
    /\ sim_result.trace = DeepTrace
    /\ behavior_report.nested_call_depth = 6
    /\ behavior_report.external_interactions = 6
    /\ behavior_report.static_call_count = 2
    /\ behavior_report.storage_write_count = 6
    /\ HasFlag("Multiple external contract interactions")

\* C26: gas_anomaly is true if and only if the gas limit is positive and the
\* gas used is at least the configured percentage of it, usage of exactly the
\* threshold included; the anomaly flag is there exactly when gas_anomaly is
\* true.
C26_AnomalyAtAndAboveThreshold ==
    Analysed =>
        /\ behavior_report.gas_anomaly <=>
              /\ request.gas_limit > 0
              /\ sim_result.gas_used * 100 >= gas_threshold * request.gas_limit
        /\ HasFlag("Gas usage anomaly") <=> behavior_report.gas_anomaly

\* C29: a call that reverted or failed has gas_used = gas_limit, so its usage
\* is 100%, gas_anomaly is true under every threshold up to 100, the risk
\* report has the gas anomaly rule and its score is at least 15.
C29_RevertIsAGasAnomaly ==
    Analysed /\ sim_result.reverted /\ gas_threshold <= 100 =>
        /\ sim_result.gas_used = request.gas_limit
        /\ behavior_report.gas_usage_pct = 100 * 100
        /\ behavior_report.gas_anomaly
        /\ risk_report # NoRecord =>
              /\ HasRule("Gas anomaly")
              /\ risk_report.score >= RISK_WEIGHTS.gas_anomaly

C29_Witness ==
    /\ run_pc = "done"
    /\ sim_result.reverted
    /\ sim_result.revert_reason = "connection refused"
    /\ gas_threshold = 100
    /\ risk_report.score = RISK_WEIGHTS.gas_anomaly

\* C30: without a trace nested_call_depth is one of 0..4, so under the default
\* maximum of 5 nested calls in the configuration and in the policy there is
\* no 'excessive nested calls' flag, no nested calls rule in the risk report
\* and no nested calls violation of the policy.
C30_UntracedDepthBelowMaximum ==
    Analysed /\ Untraced =>
        /\ behavior_report.nested_call_depth \in 0..4
        /\ ~HasFlag("Excessive nested calls")
        /\ risk_report # NoRecord => ~HasRule("Nested external calls")
        /\ final_report # NoRecord =>
              ~HasViolation("Nested calls exceeds policy limit")

C30_Witness ==
    /\ run_pc = "done"
    /\ Untraced
    /\ sim_result.gas_used = 500001
    /\ behavior_report.nested_call_depth = 4
    /\ final_report.policy_violations = <<>>

\* With a trace the depth is that of the tree and can be above the maximum.
TracedDepthAboveMaximum ==
    /\ run_pc = "done"
    /\ HasFlag("Excessive nested calls")
    /\ HasRule("Nested external calls")
    /\ HasViolation("Nested calls exceeds policy limit")

====
